---- MODULE Spec2Model ----
(***************************************************************************)
(* Bid-to-order settlement of the marketplace backend.                     *)
(*                                                                         *)
(* The state is the User collection (role and profile address), the        *)
(* Product collection (listings with embedded bids), the Order collection, *)
(* the calendar day, the requests in flight and the last HTTP response.    *)
(*                                                                         *)
(* A handler runs as the sequence of its database operations: an action is *)
(* one awaited operation together with the synchronous code that follows   *)
(* it up to the next await or the response (the code in front of the first *)
(* await belongs to the first action).  Between two actions of a request   *)
(* the request is held in a slot of reqs with the local variables it still *)
(* uses, and any other request may run.  A specification states which      *)
(* requests arrive and how many are in flight at a time.                   *)
(*                                                                         *)
(* product.save() is Mongoose's save of a loaded document: it sends only   *)
(* the paths the handler modified.  A pushed bid is a $push that           *)
(* increments __v; a changed bids.<i>.status is a positional $set that is  *)
(* applied only if __v still has the value that was read (VersionError     *)
(* otherwise) and leaves __v as it is.  findByIdAndUpdate with             *)
(* runValidators validates the update before it is sent, drops fields that *)
(* are undefined, and returns null without an error when the document is   *)
(* gone.                                                                   *)
(***************************************************************************)
EXTENDS Integers, Sequences, FiniteSets, TLC

VARIABLES users, products, orders, today, reqs, lastResp

vars == <<users, products, orders, today, reqs, lastResp>>

(* ---------------------------- bounds ----------------------------------- *)
MaxBids == 2
MaxDay == 2
MaxOrders == 2
MaxRaceBids == 3
MaxRaceOrders == 3
MaxRebids == 3

(* ---------------------------- domains ---------------------------------- *)
Users == {"u1", "u2", "u3"}
ProductIds == {"p1", "p2"}
Reqs == {"r1", "r2"}
PostTypes == {"sell", "buy"}
ProductStatuses == {"active", "sold", "expired", "cancelled", "purchased"}
BidStatuses == {"pending", "accepted", "rejected"}
Settled == {"sold", "purchased"}
Prices == {1, 2}
BidAmounts == {1, 2, 3}
Weights == {0, 2}
Owners == {"u1"}
BidIds == 1..MaxBids

(* ---------------------------- User ------------------------------------- *)
\* Callers of the routes: the registered users and the admin.  u4 is a
\* person who has not registered yet.
Callers == Users \cup {"admin"}
NewUsers == {"u4"}
Roles == {"seller", "buyer"}

\* A User document: its role, and whether street, city, state and zipCode of
\* its address (plain optional strings) are all filled in.
NewUser(role, addr) == [role |-> role, address |-> addr]

\* The users of the running system: seller u1 and buyer u2 with a full
\* profile address, buyer u3 who never filled one in, and the admin.
InitUsers ==
    [u \in Callers |->
        IF u = "admin" THEN NewUser("admin", TRUE)
        ELSE IF u = "u1" THEN NewUser("seller", TRUE)
        ELSE NewUser("buyer", u # "u3")]

\* The profile address placeBid copies into a bid on a buy post.
ProfileAddressComplete(u) == users[u].address

\* req.user.role
Role(u) == users[u].role

\* req.user.role === "admin"
IsAdmin(u) == Role(u) = "admin"

NoWinner == [user |-> "none", bidAmount |-> 0]
NoResp == [op |-> "none", status |-> 0, msg |-> "none"]
Resp(op, status, msg) == [op |-> op, status |-> status, msg |-> msg]

(* ---------------------------- Product ---------------------------------- *)
\* Product.create in createProduct: status defaults to active, bids to [],
\* bidWinner is unset.  postedPrice is a history field: the price the listing
\* was first posted at (pricePerKg can be edited afterwards).
NewProduct(u, pt, price, w) ==
    [user |-> u, postType |-> pt, pricePerKg |-> price, postedPrice |-> price,
     totalWeight |-> w, status |-> "active", bids |-> <<>>,
     bidWinner |-> NoWinner, soldAt |-> 0, v |-> 0]

\* Stands for the document of a listing that does not exist.
NoDoc == NewProduct("none", "sell", 0, 0)

\* paymentMethod = 'Cash on Delivery' in the destructuring of req.body; pm is
\* the method of the request, "none" when the body has none.
PaymentMethod(pm) == IF pm = "none" THEN "Cash on Delivery" ELSE pm

\* The bid placeBid pushes.
NewBidOf(u, amt, pm) ==
    [user |-> u, bidAmount |-> amt, status |-> "pending",
     paymentMethod |-> PaymentMethod(pm)]

NewBid(u, amt) == NewBidOf(u, amt, "none")

\* product.bids.push, at the front of the array.
PushBid_Front(bids, bid) == <<bid>> \o bids

\* product.bids.push
PushBid(bids, bid) == Append(bids, bid)

\* product.status !== 'active', letting expired and cancelled listings pass.
Inactive_SettledOnly(doc) == doc.status \in Settled

\* product.status !== 'active'
Inactive(doc) == doc.status # "active"

\* populate('user') and populate('bids.user'): the path holds the referenced
\* User document, null when no user has that _id any more; reading a
\* property of it (product.user._id, bid.user.role) then throws.
Populated(u) == u \in DOMAIN users

\* The own-post check left out.
OwnPost_Never(doc, u) == FALSE

\* product.user._id.toString() === req.user.id
OwnPost(doc, u) == doc.user = u

\* The price rule of a sell post, an equal bid let through.
BidTooLow_EqualPasses(doc, amt) == amt < doc.pricePerKg

\* bidAmount <= product.pricePerKg on a sell post
BidTooLow(doc, amt) == amt <= doc.pricePerKg

\* bidAmount >= product.pricePerKg on a buy post
BidTooHigh(doc, amt) == amt >= doc.pricePerKg

\* The existing-bid check, counting a bid of the user whatever its status.
HasPendingBid_AnyStatus(doc, u) ==
    \E i \in 1..Len(doc.bids) : doc.bids[i].user = u

\* product.bids.find(bid => bid.user is the caller && bid.status === 'pending')
HasPendingBid(doc, u) ==
    \E i \in 1..Len(doc.bids) :
        doc.bids[i].user = u /\ doc.bids[i].status = "pending"

\* The checks of placeBid on the document Product.findById returned, up to
\* the await of User.findById; "ok" means the handler goes on.
PlaceReadCheck(exists, doc, u) ==
    IF ~exists THEN Resp("placeBid", 404, "Product not found")
    ELSE IF Inactive(doc)
        THEN Resp("placeBid", 400, "Cannot bid on inactive product")
    ELSE IF ~Populated(doc.user) THEN Resp("placeBid", 500, "TypeError")
    ELSE IF OwnPost(doc, u)
        THEN Resp("placeBid", 400, "Cannot bid on your own post")
    ELSE Resp("placeBid", 200, "ok")

\* The checks of placeBid after User.findById, on the same document, in the
\* order of the code; "ok" means the handler pushes the bid and saves.
PlaceBidderCheck(doc, u, amt, addr) ==
    IF doc.postType = "sell" /\ BidTooLow(doc, amt)
        THEN Resp("placeBid", 400, "Bid must be higher than current price")
    ELSE IF doc.postType = "sell" /\ ~addr
        THEN Resp("placeBid", 400, "Delivery address is required")
    ELSE IF doc.postType = "buy" /\ BidTooHigh(doc, amt)
        THEN Resp("placeBid", 400, "Bid must be lower than asking price")
    ELSE IF HasPendingBid(doc, u)
        THEN Resp("placeBid", 400, "You already have a pending bid")
    ELSE Resp("placeBid", 200, "ok")

\* All checks of placeBid on one document, in the order of the code.
PlaceBidCheck(exists, doc, u, amt, addr) ==
    LET chk == PlaceReadCheck(exists, doc, u)
    IN IF chk.status # 200 THEN chk ELSE PlaceBidderCheck(doc, u, amt, addr)

\* Schema validation of the pushed bid at product.save(): the four
\* deliveryAddress fields are required.  A sell bid carries the address of the
\* request (checked before); a buy bid carries the profile address of the
\* owner that Product.findById populated.
BidValidates(doc, addr) ==
    IF doc.postType = "sell" THEN addr ELSE ProfileAddressComplete(doc.user)

\* The checks of acceptBid without the comparison of the post owner with the
\* caller.
AcceptBidCheck_NoOwnerCheck(exists, doc, u, bidId) ==
    IF ~exists THEN Resp("acceptBid", 404, "Product not found")
    ELSE IF ~Populated(doc.user) THEN Resp("acceptBid", 500, "TypeError")
    ELSE IF bidId \notin 1..Len(doc.bids)
        THEN Resp("acceptBid", 404, "Bid not found")
    ELSE IF ~Populated(doc.bids[bidId].user) THEN Resp("acceptBid", 500, "TypeError")
    ELSE Resp("acceptBid", 200, "ok")

\* The checks of acceptBid on the document it has read.
AcceptBidCheck(exists, doc, u, bidId) ==
    IF ~exists THEN Resp("acceptBid", 404, "Product not found")
    ELSE IF ~Populated(doc.user) THEN Resp("acceptBid", 500, "TypeError")
    ELSE IF doc.user # u THEN Resp("acceptBid", 403, "Not authorized")
    ELSE IF bidId \notin 1..Len(doc.bids)
        THEN Resp("acceptBid", 404, "Bid not found")
    ELSE IF ~Populated(doc.bids[bidId].user) THEN Resp("acceptBid", 500, "TypeError")
    ELSE Resp("acceptBid", 200, "ok")

\* product.bids.forEach of acceptBid: the bid whose _id.toString() is the
\* bidId of the request becomes accepted, every other bid rejected, whatever
\* their status was.  exact says the request spells the id the way toString
\* does (lower-case hex); product.bids.id(bidId) casts the id and finds the
\* bid under another spelling too, the string comparison then matches none.
MarkBids(bids, bidId, exact) ==
    [i \in 1..Len(bids) |->
        [bids[i] EXCEPT !.status =
            IF i = bidId /\ exact THEN "accepted" ELSE "rejected"]]

\* product.status of an accepted listing, 'sold' for every post type.
SettledStatus_AlwaysSold(pt) == "sold"

\* product.status = product.postType === 'sell' ? 'sold' : 'purchased'
SettledStatus(pt) == IF pt = "sell" THEN "sold" ELSE "purchased"

\* The document acceptBid holds in memory when it calls product.save().
AcceptMutate(doc, bidId, exact, day) ==
    [doc EXCEPT !.bids = MarkBids(doc.bids, bidId, exact),
                !.bidWinner = [user |-> doc.bids[bidId].user,
                               bidAmount |-> doc.bids[bidId].bidAmount],
                !.status = SettledStatus(doc.postType),
                !.soldAt = day]

(* ---------------------------- Order ------------------------------------ *)
\* Money is counted in cents: a bidAmount of 75 is the JSON number 0.75.
\* Number.prototype.toFixed(2) gives the cent amount nearest to the exact
\* value of the double it is called on, the larger one when that value lies
\* exactly halfway.  HalfUp(n, d) is that rounding of the exact quotient n / d.
HalfUp(n, d) == (2 * n + d) \div (2 * d)

\* totalPrice * 0.02 and totalPrice - totalPrice * 0.02 are IEEE-754 doubles.
\* Off a decimal halfway case the double rounds as the exact quotient does.
\* At a halfway case (2 * total = 50 modulo 100) the double lies just above
\* or just below the midpoint.  The totals of the input domain whose double
\* lies below it, where toFixed(2) yields one cent less than the exact
\* rounding:
\*   0.75 * 0.02 = 0.015 (below)       0.75 - 0.015 = 0.735 (below)
\*   2.25 * 0.02 = 0.045 (below)       0.25 - 0.005 = 0.245 (below)
\*   3.75 * 0.02 = 0.075 (below)       3.75 - 0.075 = 3.675 (below)
RevenueBelowHalf == {75, 225, 375}
EarningBelowHalf == {25, 75, 375}

\* parseFloat(companyRevenue.toFixed(2)), companyRevenue = totalPrice * 0.02.
CommissionCents(totalCents) ==
    HalfUp(2 * totalCents, 100) - (IF totalCents \in RevenueBelowHalf THEN 1 ELSE 0)

\* parseFloat(sellerEarning.toFixed(2)), sellerEarning = totalPrice minus the
\* unrounded companyRevenue.
SellerEarningCents(totalCents) ==
    HalfUp(98 * totalCents, 100) - (IF totalCents \in EarningBelowHalf THEN 1 ELSE 0)

TodaysOrders(ords, day) ==
    Cardinality({i \in 1..Len(ords) : ords[i].createdAt = day})

\* totalPrice of acceptBid, priced at the listing's posted pricePerKg.
TotalPrice_Posted(doc, bid) == doc.totalWeight * doc.pricePerKg

\* const totalPrice = product.totalWeight * bid.bidAmount
TotalPrice(doc, bid) == doc.totalWeight * bid.bidAmount

\* seller of the order, the post owner whatever the post type.
OrderSeller_AlwaysOwner(doc, bid) == doc.user

\* Seller post: the post owner is the seller and the bidder the buyer.
\* Buyer post: the post owner is the buyer and the bidder the seller.
OrderSeller(doc, bid) == IF doc.postType = "sell" THEN doc.user ELSE bid.user

OrderBuyer(doc, bid) == IF doc.postType = "sell" THEN bid.user ELSE doc.user

\* orderData of acceptBid.  doc is the document acceptBid read and mutated,
\* day the date taken for the order number, cnt the counted orders of that
\* day.  commissionRate (0.02) is held in percent.
OrderData(p, doc, bidId, day, cnt) ==
    LET bid == doc.bids[bidId]
        totalPrice == TotalPrice(doc, bid)
    IN [orderNumber |-> <<day, cnt + 1>>,
        product |-> p,
        seller |-> OrderSeller(doc, bid),
        buyer |-> OrderBuyer(doc, bid),
        postType |-> doc.postType,
        quantity |-> doc.totalWeight,
        pricePerKg |-> bid.bidAmount,
        totalPrice |-> totalPrice,
        companyRevenue |-> CommissionCents(totalPrice),
        sellerEarning |-> SellerEarningCents(totalPrice),
        buyerPayment |-> totalPrice,
        commissionRate |-> 2,
        paymentStatus |-> "Pending",
        deliveryStatus |-> "Pending",
        orderStatus |-> "Processing",
        deliveredAt |-> 0,
        cancelledAt |-> 0,
        rating |-> 0,
        review |-> "none",
        reviewedAt |-> 0]

\* orderSchema validators that an order of acceptBid can fail: quantity has
\* min 1, pricePerKg and totalPrice min 0.
OrderValidates(od) == od.quantity >= 1 /\ od.pricePerKg >= 0 /\ od.totalPrice >= 0

\* Order.create without the unique index on orderNumber.
OrderNumberFree_NoIndex(ords, od) == TRUE

\* The unique index on orderNumber.
OrderNumberFree(ords, od) ==
    \A i \in 1..Len(ords) : ords[i].orderNumber # od.orderNumber

\* Outcome of Order.create(orderData).
OrderCreateResp(ords, od) ==
    IF ~OrderValidates(od) THEN Resp("acceptBid", 500, "ValidationError")
    ELSE IF ~OrderNumberFree(ords, od) THEN Resp("acceptBid", 500, "E11000 duplicate key")
    ELSE Resp("acceptBid", 200, "ok")

OrdersOf(p) == {i \in 1..Len(orders) : orders[i].product = p}

(* ---------------------------- requests --------------------------------- *)
\* A slot of reqs: pc names the await a request is suspended at ("idle"
\* when the slot holds no request), the other fields are the local variables
\* the handler uses after that await.
IdleReq == [pc |-> "idle"]

Idle(r) == reqs[r].pc = "idle"

AllIdle == \A r \in Reqs : Idle(r)

\* The number of requests suspended at one of the awaits pcs.
InFlight(pcs) == Cardinality({r \in Reqs : reqs[r].pc \in pcs})

\* The handler of r reaches its next await with the local variables slot.
Suspend(r, slot) ==
    /\ reqs' = [reqs EXCEPT ![r] = slot]
    /\ UNCHANGED lastResp

\* The handler of r sends its response and ends.
Respond(r, resp) ==
    /\ reqs' = [reqs EXCEPT ![r] = IdleReq]
    /\ lastResp' = resp

Init ==
    /\ users = InitUsers
    /\ products = [p \in {} |-> NoDoc]
    /\ orders = <<>>
    /\ today = 1
    /\ reqs = [r \in Reqs |-> IdleReq]
    /\ lastResp = NoResp

\* The calendar day of new Date() moves on.
NextDay ==
    /\ today < MaxDay
    /\ today' = today + 1
    /\ UNCHANGED <<users, products, orders, reqs, lastResp>>

(* ---------------------------- createProduct ---------------------------- *)
\* The rest of the body of createProduct: "ok" with every required field
\* and a location that is JSON, "noExpiry" without expiryDate, "badLocation"
\* with a location JSON.parse throws on.
Bodies == {"ok", "noExpiry", "badLocation"}

\* The outcome of createProduct up to Product.create: the post type check,
\* JSON.parse(location) in the argument of Product.create, then the
\* validators of productSchema (required fields, pricePerKg and totalWeight
\* min 0, userRole in seller, buyer).  pt is "none" when the body has no
\* postType.
CreateCheck(u, pt, price, w, body) ==
    IF pt \notin PostTypes
        THEN Resp("createProduct", 400, "Post type must be sell or buy")
    ELSE IF body = "badLocation" THEN Resp("createProduct", 500, "SyntaxError")
    ELSE IF body = "noExpiry" \/ price < 0 \/ w < 0 \/ Role(u) \notin Roles
        THEN Resp("createProduct", 500, "ValidationError")
    ELSE Resp("createProduct", 201, "ok")

\* The collection after Product.create stored the listing under the new _id p.
WithProduct(prods, p, doc) ==
    [q \in DOMAIN prods \cup {p} |-> IF q = p THEN doc ELSE prods[q]]

\* createProduct up to the await of product.populate: the checks and
\* Product.create; p is the _id of the new document.
CreateWrite(r, p, u, pt, price, w, body) ==
    LET chk == CreateCheck(u, pt, price, w, body)
    IN /\ Idle(r)
       /\ p \notin DOMAIN products
       /\ IF chk.status # 201
            THEN /\ Respond(r, chk)
                 /\ UNCHANGED products
            ELSE /\ products' = WithProduct(products, p, NewProduct(u, pt, price, w))
                 /\ Suspend(r, [pc |-> "create_respond"])
       /\ UNCHANGED <<users, orders, today>>

\* product.populate of createProduct and the response.
CreateRespond(r) ==
    /\ reqs[r].pc = "create_respond"
    /\ Respond(r, Resp("createProduct", 201, "ok"))
    /\ UNCHANGED <<users, products, orders, today>>

(* ---------------------------- placeBid --------------------------------- *)
\* placeBid up to the await of User.findById: Product.findById with the
\* owner populated, and the checks that need the listing only.
PlaceRead(r, p, u, amt, addr, pm) ==
    LET exists == p \in DOMAIN products
        doc == IF exists THEN products[p] ELSE NoDoc
        chk == PlaceReadCheck(exists, doc, u)
    IN /\ Idle(r)
       /\ IF chk.status # 200
            THEN Respond(r, chk)
            ELSE Suspend(r, [pc |-> "place_bidder", p |-> p, u |-> u, amt |-> amt,
                             addr |-> addr, pm |-> pm, doc |-> doc,
                             valid |-> BidValidates(doc, addr)])
       /\ UNCHANGED <<users, products, orders, today>>

\* placeBid from User.findById to the await of product.save(): the price
\* rule, the address and the pending-bid check on the document read before,
\* then the push of the bid onto that document.
PlaceBidder(r) ==
    LET q == reqs[r]
        chk == PlaceBidderCheck(q.doc, q.u, q.amt, q.addr)
    IN /\ q.pc = "place_bidder"
       /\ IF chk.status # 200
            THEN Respond(r, chk)
            ELSE Suspend(r, [pc |-> "place_save", p |-> q.p,
                             bid |-> NewBidOf(q.u, q.amt, q.pm), valid |-> q.valid])
       /\ UNCHANGED <<users, products, orders, today>>

\* product.save() of placeBid: the document is validated, then the pushed
\* bid goes out as a $push, which appends to the stored array and increments
\* __v.  A save that increments __v and finds no document to update raises
\* VersionError.
PlaceSave(r) ==
    LET q == reqs[r] IN
    /\ q.pc = "place_save"
    /\ IF ~q.valid
         THEN /\ Respond(r, Resp("placeBid", 500, "ValidationError"))
              /\ UNCHANGED products
       ELSE IF q.p \notin DOMAIN products
         THEN /\ Respond(r, Resp("placeBid", 500, "VersionError"))
              /\ UNCHANGED products
       ELSE /\ products' = [products EXCEPT ![q.p].bids = PushBid(@, q.bid),
                                            ![q.p].v = @ + 1]
            /\ Suspend(r, [pc |-> "place_respond"])
    /\ UNCHANGED <<users, orders, today>>

\* product.populate('bids.user') of placeBid and the response.
PlaceRespond(r) ==
    /\ reqs[r].pc = "place_respond"
    /\ Respond(r, Resp("placeBid", 200, "ok"))
    /\ UNCHANGED <<users, products, orders, today>>

(* ---------------------------- acceptBid -------------------------------- *)
\* acceptBid up to the await of product.save(): Product.findById and the
\* checks; the handler then marks the bids and settles its copy, stamped with
\* the day of this step.
AcceptRead(r, p, u, bidId, exact) ==
    LET exists == p \in DOMAIN products
        doc == IF exists THEN products[p] ELSE NoDoc
        chk == AcceptBidCheck(exists, doc, u, bidId)
    IN /\ Idle(r)
       /\ IF chk.status # 200
            THEN Respond(r, chk)
            ELSE Suspend(r, [pc |-> "accept_save", p |-> p, bidId |-> bidId,
                             doc |-> doc,
                             mut |-> AcceptMutate(doc, bidId, exact, today)])
       /\ UNCHANGED <<users, products, orders, today>>

\* The bids whose status the handler changed in its copy: each goes out as a
\* positional $set of bids.<i>.status.
ChangedBids(snap, mut) ==
    {i \in 1..Len(snap.bids) : snap.bids[i].status # mut.bids[i].status}

\* The stored document after the update of acceptBid's save is applied.
ApplyAcceptDelta(cur, snap, mut) ==
    [cur EXCEPT
        !.bids = [i \in 1..Len(cur.bids) |->
                    IF i \in ChangedBids(snap, mut)
                      THEN [cur.bids[i] EXCEPT !.status = mut.bids[i].status]
                      ELSE cur.bids[i]],
        !.bidWinner = mut.bidWinner,
        !.status = IF mut.status # snap.status THEN mut.status ELSE @,
        !.soldAt = mut.soldAt]

\* Outcome of the save of a settled copy.  With a changed bid status the
\* update is filtered on the __v read, and a save that matches no document,
\* the listing deleted or its __v moved on, raises VersionError.  Without
\* one the update is filtered on _id alone and only a deleted listing fails
\* it, with DocumentNotFoundError.
AcceptSaveResp(p, snap, mut) ==
    IF ChangedBids(snap, mut) # {}
          /\ (p \notin DOMAIN products \/ products[p].v # snap.v)
      THEN Resp("acceptBid", 500, "VersionError")
    ELSE IF p \notin DOMAIN products
      THEN Resp("acceptBid", 500, "DocumentNotFoundError")
    ELSE Resp("acceptBid", 200, "ok")

\* product.save() of acceptBid, then new Date() for the order number.
AcceptSave(r) ==
    LET q == reqs[r]
        sr == AcceptSaveResp(q.p, q.doc, q.mut)
    IN
    /\ q.pc = "accept_save"
    /\ IF sr.status # 200
         THEN /\ Respond(r, sr)
              /\ UNCHANGED products
       ELSE /\ products' = [products EXCEPT ![q.p] = ApplyAcceptDelta(@, q.doc, q.mut)]
            /\ Suspend(r, [pc |-> "accept_count", p |-> q.p, bidId |-> q.bidId,
                           mut |-> q.mut, day |-> today])
    /\ UNCHANGED <<users, orders, today>>

\* Order.countDocuments of acceptBid over the day taken after the save, then
\* orderData and the call of Order.create, which stamps createdAt with the
\* day of this step before the insert is awaited.
AcceptCount(r) ==
    LET q == reqs[r] IN
    /\ q.pc = "accept_count"
    /\ Suspend(r, [pc |-> "accept_create", p |-> q.p, bidId |-> q.bidId,
                   od |-> OrderData(q.p, q.mut, q.bidId, q.day,
                                    TodaysOrders(orders, q.day))
                            @@ [createdAt |-> today]])
    /\ UNCHANGED <<users, products, orders, today>>

\* The insert of Order.create of acceptBid: the document built when
\* Order.create was called is validated and stored.
AcceptCreate(r) ==
    LET q == reqs[r]
        od == q.od
        cr == OrderCreateResp(orders, od)
    IN /\ q.pc = "accept_create"
       /\ IF cr.status # 200
            THEN /\ Respond(r, cr)
                 /\ UNCHANGED orders
            ELSE /\ orders' = Append(orders, od)
                 /\ Suspend(r, [pc |-> "accept_respond", p |-> q.p, bidId |-> q.bidId])
       /\ UNCHANGED <<users, products, today>>

\* The populate calls of acceptBid after Order.create and the response.
AcceptRespond(r) ==
    /\ reqs[r].pc = "accept_respond"
    /\ Respond(r, Resp("acceptBid", 200, "ok"))
    /\ UNCHANGED <<users, products, orders, today>>

(* ---------------------------- listing updates -------------------------- *)
\* A request body is a record of the fields it carries.  NoBody carries none.
NoBody == [f \in {} |-> 0]

\* The paths of productSchema the model holds; an update sets those of its
\* fields that are paths of the schema and drops the others.
ProductPaths ==
    {"user", "postType", "pricePerKg", "totalWeight", "status", "bids",
     "bidWinner", "soldAt"}

\* The validators runValidators applies to an update of a listing: the enums
\* of status and postType, min 0 of pricePerKg and totalWeight.
UpdateValidates(body) ==
    /\ "status" \in DOMAIN body => body.status \in ProductStatuses
    /\ "postType" \in DOMAIN body => body.postType \in PostTypes
    /\ "pricePerKg" \in DOMAIN body => body.pricePerKg >= 0
    /\ "totalWeight" \in DOMAIN body => body.totalWeight >= 0

\* The stored listing after the $set of an update.
ProductUpdate(doc, body) ==
    [f \in DOMAIN doc |->
        IF f \in DOMAIN body \cap ProductPaths THEN body[f] ELSE doc[f]]

\* Product.findByIdAndUpdate(id, body, {runValidators: true}) and the
\* response the handler op sends after it: 500 when a validator refuses the
\* update, else 200, with the listing updated when it still exists.
ProductWrite(r, op, p, body) ==
    IF ~UpdateValidates(body)
      THEN /\ Respond(r, Resp(op, 500, "ValidationError"))
           /\ UNCHANGED products
      ELSE /\ Respond(r, Resp(op, 200, "ok"))
           /\ products' = IF p \in DOMAIN products
                            THEN [products EXCEPT ![p] = ProductUpdate(@, body)]
                            ELSE products

\* updateMyProduct up to the await of Product.findByIdAndUpdate:
\* Product.findById, the owner check, and updateData = { ...req.body } with
\* JSON.parse of a location (the field location of body says whether it
\* parses).
UpdateMyRead(r, p, u, body) ==
    /\ Idle(r)
    /\ IF p \notin DOMAIN products
         THEN Respond(r, Resp("updateMyProduct", 404, "Product not found"))
       ELSE IF products[p].user # u
         THEN Respond(r, Resp("updateMyProduct", 403, "Not authorized"))
       ELSE IF "location" \in DOMAIN body /\ ~body.location
         THEN Respond(r, Resp("updateMyProduct", 500, "SyntaxError"))
       ELSE Suspend(r, [pc |-> "updatemy_write", p |-> p, body |-> body])
    /\ UNCHANGED <<users, products, orders, today>>

\* Product.findByIdAndUpdate of updateMyProduct and the response.
UpdateMyWrite(r) ==
    /\ reqs[r].pc = "updatemy_write"
    /\ ProductWrite(r, "updateMyProduct", reqs[r].p, reqs[r].body)
    /\ UNCHANGED <<users, orders, today>>

\* updateProductStatus (admin route) up to the await of
\* Product.findByIdAndUpdate; the update is { status } of the body.
StatusRead(r, p, body) ==
    /\ Idle(r)
    /\ IF p \notin DOMAIN products
         THEN Respond(r, Resp("updateProductStatus", 404, "Product not found"))
         ELSE Suspend(r, [pc |-> "status_write", p |-> p,
                          body |-> [f \in DOMAIN body \cap {"status"} |-> body[f]]])
    /\ UNCHANGED <<users, products, orders, today>>

\* Product.findByIdAndUpdate of updateProductStatus and the response.
StatusWrite(r) ==
    /\ reqs[r].pc = "status_write"
    /\ ProductWrite(r, "updateProductStatus", reqs[r].p, reqs[r].body)
    /\ UNCHANGED <<users, orders, today>>

\* Product.findByIdAndDelete: the stored listings without p.
WithoutProduct(prods, p) == [q \in DOMAIN prods \ {p} |-> prods[q]]

\* deleteMyProduct up to the await of Product.findByIdAndDelete (the listing
\* has no images).
DeleteMyRead(r, p, u) ==
    /\ Idle(r)
    /\ IF p \notin DOMAIN products
         THEN Respond(r, Resp("deleteMyProduct", 404, "Product not found"))
       ELSE IF products[p].user # u
         THEN Respond(r, Resp("deleteMyProduct", 403,
                              "Not authorized to delete this product"))
       ELSE Suspend(r, [pc |-> "deletemy_write", p |-> p])
    /\ UNCHANGED <<users, products, orders, today>>

\* Product.findByIdAndDelete of deleteMyProduct and the response.
DeleteMyWrite(r) ==
    /\ reqs[r].pc = "deletemy_write"
    /\ products' = WithoutProduct(products, reqs[r].p)
    /\ Respond(r, Resp("deleteMyProduct", 200, "ok"))
    /\ UNCHANGED <<users, orders, today>>

\* deleteProduct (admin route) up to the await of Product.findByIdAndDelete.
DeleteProductRead(r, p) ==
    /\ Idle(r)
    /\ IF p \notin DOMAIN products
         THEN Respond(r, Resp("deleteProduct", 404, "Product not found"))
         ELSE Suspend(r, [pc |-> "deleteproduct_write", p |-> p])
    /\ UNCHANGED <<users, products, orders, today>>

\* Product.findByIdAndDelete of deleteProduct and the response.
DeleteProductWrite(r) ==
    /\ reqs[r].pc = "deleteproduct_write"
    /\ products' = WithoutProduct(products, reqs[r].p)
    /\ Respond(r, Resp("deleteProduct", 200, "ok"))
    /\ UNCHANGED <<users, orders, today>>

(* ---------------------------- the older product controller ------------- *)
\* The product controller that came before the bid controller exports its
\* own createProduct, placeBid and acceptBid; its updateMyProduct and
\* deleteMyProduct are those above.
\*
\* createProduct of the older controller: Product.create without postType
\* and userRole, which productSchema requires, so the validators refuse the
\* document whatever the body is; JSON.parse(location) throws before that.
LegacyCreateProduct(r, body) ==
    /\ Idle(r)
    /\ Respond(r, IF body = "badLocation"
                    THEN Resp("createProduct", 500, "SyntaxError")
                    ELSE Resp("createProduct", 500, "ValidationError"))
    /\ UNCHANGED <<users, products, orders, today>>

\* The checks of the older placeBid on the document Product.findById
\* returned (no path populated, no price rule, no address).
LegacyPlaceCheck(exists, doc, u) ==
    IF ~exists THEN Resp("placeBid", 404, "Product not found")
    ELSE IF Inactive(doc)
        THEN Resp("placeBid", 400, "Cannot bid on inactive product")
    ELSE IF OwnPost(doc, u)
        THEN Resp("placeBid", 400, "Cannot bid on your own product")
    ELSE IF HasPendingBid(doc, u)
        THEN Resp("placeBid", 400, "You already have a pending bid")
    ELSE Resp("placeBid", 200, "ok")

\* The older placeBid up to the await of product.save(): the pushed bid has
\* no deliveryAddress.
LegacyPlaceRead(r, p, u, amt) ==
    LET exists == p \in DOMAIN products
        doc == IF exists THEN products[p] ELSE NoDoc
        chk == LegacyPlaceCheck(exists, doc, u)
    IN /\ Idle(r)
       /\ IF chk.status # 200
            THEN Respond(r, chk)
            ELSE Suspend(r, [pc |-> "legacyplace_save", p |-> p])
       /\ UNCHANGED <<users, products, orders, today>>

\* product.save() of the older placeBid: the required fields of
\* bids.deliveryAddress are missing in the pushed bid, the validators refuse
\* the document and nothing is stored.
LegacyPlaceSave(r) ==
    /\ reqs[r].pc = "legacyplace_save"
    /\ Respond(r, Resp("placeBid", 500, "ValidationError"))
    /\ UNCHANGED <<users, products, orders, today>>

\* The checks of the older acceptBid (no path populated).
LegacyAcceptCheck(exists, doc, u, bidId) ==
    IF ~exists THEN Resp("acceptBid", 404, "Product not found")
    ELSE IF doc.user # u THEN Resp("acceptBid", 403, "Not authorized")
    ELSE IF bidId \notin 1..Len(doc.bids)
        THEN Resp("acceptBid", 404, "Bid not found")
    ELSE Resp("acceptBid", 200, "ok")

\* The older acceptBid up to the await of product.save(): the listing
\* becomes sold whatever its post type.
LegacyAcceptRead(r, p, u, bidId, exact) ==
    LET exists == p \in DOMAIN products
        doc == IF exists THEN products[p] ELSE NoDoc
        chk == LegacyAcceptCheck(exists, doc, u, bidId)
    IN /\ Idle(r)
       /\ IF chk.status # 200
            THEN Respond(r, chk)
            ELSE Suspend(r, [pc |-> "legacyaccept_save", p |-> p, doc |-> doc,
                             mut |-> [AcceptMutate(doc, bidId, exact, today)
                                         EXCEPT !.status = "sold"]])
       /\ UNCHANGED <<users, products, orders, today>>

\* product.save() of the older acceptBid; no order is created.
LegacyAcceptSave(r) ==
    LET q == reqs[r]
        sr == AcceptSaveResp(q.p, q.doc, q.mut)
    IN
    /\ q.pc = "legacyaccept_save"
    /\ IF sr.status # 200
         THEN /\ Respond(r, sr)
              /\ UNCHANGED products
       ELSE /\ products' = [products EXCEPT ![q.p] = ApplyAcceptDelta(@, q.doc, q.mut)]
            /\ Suspend(r, [pc |-> "legacyaccept_respond"])
    /\ UNCHANGED <<users, orders, today>>

\* The populate calls of the older acceptBid and the response.
LegacyAcceptRespond(r) ==
    /\ reqs[r].pc = "legacyaccept_respond"
    /\ Respond(r, Resp("acceptBid", 200, "ok"))
    /\ UNCHANGED <<users, products, orders, today>>

(* ---------------------------- user handlers --------------------------- *)
\* protect in front of a route: the token names a user that still exists.
Protect(u) == u \in DOMAIN users

\* The address the update of updateProfile stores: addr is the address of
\* the body, "none" when the body has none (the stored one stays), "full"
\* with street, city, state and zipCode, "partial" with some of them missing.
\* The address of the body replaces the whole stored address.
ProfileAddress(old, addr) == IF addr = "none" THEN old ELSE addr = "full"

\* The User collection with the document doc stored for u.
WithUser(usrs, u, doc) ==
    [v \in DOMAIN usrs \cup {u} |-> IF v = u THEN doc ELSE usrs[v]]

\* The User collection without the document of u.
WithoutUser(usrs, u) == [v \in DOMAIN usrs \ {u} |-> usrs[v]]

\* register up to the await of User.create: the password check and
\* User.findOne({ email }).  u stands for the email of the body, confirmed
\* says password and confirm_password are equal, mail that sendEmail
\* delivers.
RegisterRead(r, u, role, addr, confirmed, mail) ==
    /\ Idle(r)
    /\ IF ~confirmed
         THEN Respond(r, Resp("register", 400, "Passwords do not match"))
       ELSE IF u \in DOMAIN users
         THEN Respond(r, Resp("register", 400, "User already exists"))
       ELSE Suspend(r, [pc |-> "register_create", u |-> u, role |-> role,
                        addr |-> addr, mail |-> mail])
    /\ UNCHANGED <<users, products, orders, today>>

\* User.create of register: the validators of userSchema (role in seller,
\* buyer) and the unique index on email.
RegisterCreate(r) ==
    LET q == reqs[r] IN
    /\ q.pc = "register_create"
    /\ IF q.role \notin Roles
         THEN /\ Respond(r, Resp("register", 500, "ValidationError"))
              /\ UNCHANGED users
       ELSE IF q.u \in DOMAIN users
         THEN /\ Respond(r, Resp("register", 500, "E11000 duplicate key"))
              /\ UNCHANGED users
       ELSE /\ users' = WithUser(users, q.u, NewUser(q.role, ProfileAddress(FALSE, q.addr)))
            /\ Suspend(r, [pc |-> "register_save", u |-> q.u, mail |-> q.mail])
    /\ UNCHANGED <<products, orders, today>>

\* user.save() of register, which stores the verification token.
RegisterSave(r) ==
    LET q == reqs[r] IN
    /\ q.pc = "register_save"
    /\ IF q.u \notin DOMAIN users
         THEN Respond(r, Resp("register", 500, "DocumentNotFoundError"))
         ELSE Suspend(r, [pc |-> "register_mail", mail |-> q.mail])
    /\ UNCHANGED <<users, products, orders, today>>

\* sendEmail of register and the response; when it throws the user is
\* stored already.
RegisterMail(r) ==
    /\ reqs[r].pc = "register_mail"
    /\ Respond(r, IF reqs[r].mail THEN Resp("register", 201, "ok")
                                  ELSE Resp("register", 500, "Email could not be sent"))
    /\ UNCHANGED <<users, products, orders, today>>

\* updateProfile: one User.findByIdAndUpdate and the response, which reads
\* the fields of the document returned (null when the user is gone).
UpdateProfile(u, addr) ==
    /\ IF u \notin DOMAIN users
         THEN /\ lastResp' = Resp("updateProfile", 500, "TypeError")
              /\ UNCHANGED users
         ELSE /\ users' = [users EXCEPT ![u].address = ProfileAddress(@, addr)]
              /\ lastResp' = Resp("updateProfile", 200, "ok")
    /\ UNCHANGED <<products, orders, today, reqs>>

\* updateUser (admin route) up to the await of User.findByIdAndUpdate: role
\* is the role of the body, "none" when the body has none.
UpdateUserRead(r, t, role) ==
    /\ Idle(r)
    /\ IF t \notin DOMAIN users
         THEN Respond(r, Resp("updateUser", 404, "User not found"))
         ELSE Suspend(r, [pc |-> "updateuser_write", t |-> t, role |-> role])
    /\ UNCHANGED <<users, products, orders, today>>

\* User.findByIdAndUpdate of updateUser and the response: a role outside
\* the enum fails the validators.
UpdateUserWrite(r) ==
    LET q == reqs[r] IN
    /\ q.pc = "updateuser_write"
    /\ IF q.role \notin Roles \cup {"none"}
         THEN /\ Respond(r, Resp("updateUser", 500, "ValidationError"))
              /\ UNCHANGED users
         ELSE /\ Respond(r, Resp("updateUser", 200, "ok"))
              /\ users' = IF q.t \in DOMAIN users /\ q.role # "none"
                            THEN [users EXCEPT ![q.t].role = q.role]
                            ELSE users
    /\ UNCHANGED <<products, orders, today>>

\* deleteUser (admin route) up to the await of Product.deleteMany.
DeleteUserRead(r, t) ==
    /\ Idle(r)
    /\ IF t \notin DOMAIN users
         THEN Respond(r, Resp("deleteUser", 404, "User not found"))
       ELSE IF Role(t) = "super-admin"
         THEN Respond(r, Resp("deleteUser", 403, "Cannot delete super admin"))
       ELSE Suspend(r, [pc |-> "deleteuser_products", t |-> t])
    /\ UNCHANGED <<users, products, orders, today>>

\* Product.deleteMany({ user }) of deleteUser.
DeleteUserProducts(r) ==
    LET q == reqs[r] IN
    /\ q.pc = "deleteuser_products"
    /\ products' = [p \in {x \in DOMAIN products : products[x].user # q.t} |-> products[p]]
    /\ Suspend(r, [pc |-> "deleteuser_orders", t |-> q.t])
    /\ UNCHANGED <<users, orders, today>>

\* Order.updateMany of deleteUser applied to one order.
DeleteUserCancel(ord, t) ==
    IF (ord.seller = t \/ ord.buyer = t) /\ ord.orderStatus \in {"Processing", "Pending"}
      THEN [ord EXCEPT !.orderStatus = "Cancelled", !.deliveryStatus = "Cancelled"]
      ELSE ord

\* Order.updateMany of deleteUser.
DeleteUserOrders(r) ==
    LET q == reqs[r] IN
    /\ q.pc = "deleteuser_orders"
    /\ orders' = [o \in 1..Len(orders) |-> DeleteUserCancel(orders[o], q.t)]
    /\ Suspend(r, [pc |-> "deleteuser_write", t |-> q.t])
    /\ UNCHANGED <<users, products, today>>

\* User.findByIdAndDelete of deleteUser and the response.
DeleteUserWrite(r) ==
    LET q == reqs[r] IN
    /\ q.pc = "deleteuser_write"
    /\ users' = WithoutUser(users, q.t)
    /\ Respond(r, Resp("deleteUser", 200, "ok"))
    /\ UNCHANGED <<products, orders, today>>

(* ---------------------------- order handlers -------------------------- *)
\* A field a request body does not carry is "none" (rating: 0);
\* deliveredAt, cancelledAt, rating and reviewedAt are 0 and review is
\* "none" while unset.
OrderStatuses == {"Processing", "Completed", "Cancelled", "Refunded"}
DeliveryStatuses == {"Pending", "Confirmed", "Shipped", "Out for Delivery",
                     "Delivered", "Cancelled"}
PaymentStatuses == {"Pending", "Paid", "Failed", "Refunded"}

\* Stands for the document of an order that does not exist.  orders[o] is
\* the order inserted as the o-th; once it is deleted orders[o] is NoOrder,
\* for an _id is never given out again.
NoOrder == [orderNumber |-> <<0, 0>>, product |-> "none", seller |-> "none",
            buyer |-> "none", postType |-> "none", quantity |-> 0,
            pricePerKg |-> 0, totalPrice |-> 0, companyRevenue |-> 0,
            sellerEarning |-> 0, buyerPayment |-> 0, commissionRate |-> 0,
            paymentStatus |-> "none", deliveryStatus |-> "none",
            orderStatus |-> "none", deliveredAt |-> 0, cancelledAt |-> 0,
            rating |-> 0, review |-> "none", reviewedAt |-> 0, createdAt |-> 0]

\* Order.findById
ReadOrder(o) == IF o \in 1..Len(orders) THEN orders[o] ELSE NoOrder

\* if (!order) of the order handlers, negated.
HasOrder(o) == ReadOrder(o) # NoOrder

\* updateData of updateDeliveryStatus without the coupling of Delivered to
\* orderStatus and deliveredAt.
DeliveryUpdate_StatusOnly(ord, ds, day) ==
    [ord EXCEPT !.deliveryStatus = IF ds # "none" THEN ds ELSE @]

\* updateData of updateDeliveryStatus applied to the stored order.
DeliveryUpdate(ord, ds, day) ==
    [ord EXCEPT !.deliveryStatus = IF ds # "none" THEN ds ELSE @,
                !.deliveredAt = IF ds = "Delivered" THEN day ELSE @,
                !.orderStatus = IF ds = "Delivered" THEN "Completed" ELSE @]

\* updateData of updateOrderStatus applied to the stored order.
OrderStatusUpdate(ord, os, ds, ps, day) ==
    [ord EXCEPT !.orderStatus = IF ds = "Delivered" THEN "Completed"
                                 ELSE IF os # "none" THEN os ELSE @,
                !.deliveredAt = IF ds = "Delivered" \/ os = "Completed" THEN day ELSE @,
                !.cancelledAt = IF os = "Cancelled" THEN day ELSE @,
                !.deliveryStatus = IF ds # "none" THEN ds ELSE @,
                !.paymentStatus = IF ps # "none" THEN ps ELSE @]

\* The enums of orderSchema that runValidators applies to updateData.
OrderUpdateValidates(os, ds, ps) ==
    /\ ds = "Delivered" \/ os \in OrderStatuses \cup {"none"}
    /\ ds \in DeliveryStatuses \cup {"none"}
    /\ ps \in PaymentStatuses \cup {"none"}

\* The update of cancelOrder, with the payment of the buyer written back to 0.
CancelUpdate_ZeroPayment(ord, day) ==
    [ord EXCEPT !.orderStatus = "Cancelled",
                !.deliveryStatus = "Cancelled",
                !.paymentStatus = "Refunded",
                !.cancelledAt = day,
                !.buyerPayment = 0]

\* The update of cancelOrder applied to the stored order.
CancelUpdate(ord, day) ==
    [ord EXCEPT !.orderStatus = "Cancelled",
                !.deliveryStatus = "Cancelled",
                !.paymentStatus = "Refunded",
                !.cancelledAt = day]

\* The checks of cancelOrder on the order it has read, seller and buyer
\* populated.
CancelCheck(exists, ord, u) ==
    IF ~exists THEN Resp("cancelOrder", 404, "Order not found")
    ELSE IF ~Populated(ord.seller) \/ ~Populated(ord.buyer)
        THEN Resp("cancelOrder", 500, "TypeError")
    ELSE IF ord.seller # u /\ ord.buyer # u
        THEN Resp("cancelOrder", 403, "Not authorized to cancel this order")
    ELSE IF ord.orderStatus \in {"Completed", "Cancelled"}
        THEN Resp("cancelOrder", 400,
                  IF ord.orderStatus = "Completed" THEN "Order is already Completed"
                                                   ELSE "Order is already Cancelled")
    ELSE IF ord.deliveryStatus = "Delivered"
        THEN Resp("cancelOrder", 400, "Cannot cancel delivered order")
    ELSE Resp("cancelOrder", 200, "ok")

\* The checks of addOrderReview on the order it has read.
ReviewCheck(exists, ord, u) ==
    IF ~exists THEN Resp("addOrderReview", 404, "Order not found")
    ELSE IF ord.buyer # u
        THEN Resp("addOrderReview", 403, "Only buyer can add review")
    ELSE IF ord.orderStatus # "Completed"
        THEN Resp("addOrderReview", 400, "Can only review completed orders")
    ELSE IF ord.rating # 0
        THEN Resp("addOrderReview", 400, "Order already reviewed")
    ELSE Resp("addOrderReview", 200, "ok")

\* Order.findByIdAndUpdate and the response the handler op sends after it:
\* 500 when a validator refuses the update, else 200, with the order o
\* replaced by upd when it exists; when it was deleted since the handler
\* read it nothing is stored and the response carries order: null.
OrderWrite(r, op, o, valid, upd) ==
    IF ~valid
      THEN /\ Respond(r, Resp(op, 500, "ValidationError"))
           /\ UNCHANGED orders
      ELSE /\ Respond(r, Resp(op, 200, "ok"))
           /\ orders' = IF HasOrder(o)
                          THEN [orders EXCEPT ![o] = upd]
                          ELSE orders

\* updateOrderStatus up to the await of Order.findByIdAndUpdate:
\* Order.findById, the admin check and updateData with its dates.
OrderStatusRead(r, o, u, os, ds, ps) ==
    /\ Idle(r)
    /\ IF ~HasOrder(o)
         THEN Respond(r, Resp("updateOrderStatus", 404, "Order not found"))
       ELSE IF ~IsAdmin(u)
         THEN Respond(r, Resp("updateOrderStatus", 403,
                              "Only admin can update order status"))
       ELSE Suspend(r, [pc |-> "orderstatus_write", o |-> o, os |-> os, ds |-> ds,
                        ps |-> ps, day |-> today])
    /\ UNCHANGED <<users, products, orders, today>>

\* Order.findByIdAndUpdate of updateOrderStatus and the response.
OrderStatusWrite(r) ==
    LET q == reqs[r] IN
    /\ q.pc = "orderstatus_write"
    /\ OrderWrite(r, "updateOrderStatus", q.o, OrderUpdateValidates(q.os, q.ds, q.ps),
                  OrderStatusUpdate(ReadOrder(q.o), q.os, q.ds, q.ps, q.day))
    /\ UNCHANGED <<users, products, today>>

\* updateDeliveryStatus up to the await of Order.findByIdAndUpdate.
DeliveryRead(r, o, u, ds) ==
    /\ Idle(r)
    /\ IF ~HasOrder(o)
         THEN Respond(r, Resp("updateDeliveryStatus", 404, "Order not found"))
       ELSE IF ~IsAdmin(u) /\ orders[o].seller # u
         THEN Respond(r, Resp("updateDeliveryStatus", 403, "Not authorized"))
       ELSE Suspend(r, [pc |-> "delivery_write", o |-> o, ds |-> ds, day |-> today])
    /\ UNCHANGED <<users, products, orders, today>>

\* Order.findByIdAndUpdate of updateDeliveryStatus and the response.
DeliveryWrite(r) ==
    LET q == reqs[r] IN
    /\ q.pc = "delivery_write"
    /\ OrderWrite(r, "updateDeliveryStatus", q.o, q.ds \in DeliveryStatuses \cup {"none"},
                  DeliveryUpdate(ReadOrder(q.o), q.ds, q.day))
    /\ UNCHANGED <<users, products, today>>

\* updatePaymentStatus open to every requester.
PaymentAuthorized_Anyone(ord, u) == TRUE

\* isSeller || isAdmin of updatePaymentStatus
PaymentAuthorized(ord, u) == ord.seller = u \/ IsAdmin(u)

\* updatePaymentStatus up to the await of Order.findByIdAndUpdate: ps is the
\* paymentStatus of the body, "none" when the body has none.
PaymentRead(r, o, u, ps) ==
    /\ Idle(r)
    /\ IF ~HasOrder(o)
         THEN Respond(r, Resp("updatePaymentStatus", 404, "Order not found"))
       ELSE IF ~PaymentAuthorized(orders[o], u)
         THEN Respond(r, Resp("updatePaymentStatus", 403,
                              "Not authorized to update payment status"))
       ELSE Suspend(r, [pc |-> "payment_write", o |-> o, ps |-> ps])
    /\ UNCHANGED <<users, products, orders, today>>

\* Order.findByIdAndUpdate of updatePaymentStatus and the response.
PaymentWrite(r) ==
    LET q == reqs[r] IN
    /\ q.pc = "payment_write"
    /\ OrderWrite(r, "updatePaymentStatus", q.o, q.ps \in PaymentStatuses \cup {"none"},
                  [ReadOrder(q.o) EXCEPT !.paymentStatus = IF q.ps # "none" THEN q.ps ELSE @])
    /\ UNCHANGED <<users, products, today>>

\* cancelOrder up to the await of Order.findByIdAndUpdate: Order.findById and
\* the checks on the order read; cancelledAt is the day of this step.
CancelRead(r, o, u) ==
    LET chk == CancelCheck(HasOrder(o), ReadOrder(o), u)
    IN /\ Idle(r)
       /\ IF chk.status # 200
            THEN Respond(r, chk)
            ELSE Suspend(r, [pc |-> "cancel_write", o |-> o, u |-> u, day |-> today])
       /\ UNCHANGED <<users, products, orders, today>>

\* Order.findByIdAndUpdate of cancelOrder and the response.
CancelWrite(r) ==
    LET q == reqs[r] IN
    /\ q.pc = "cancel_write"
    /\ OrderWrite(r, "cancelOrder", q.o, TRUE, CancelUpdate(ReadOrder(q.o), q.day))
    /\ UNCHANGED <<users, products, today>>

\* addOrderReview up to the await of Order.findByIdAndUpdate: rating is 0
\* and review "none" when the body has none.
ReviewRead(r, o, u, rating, review) ==
    LET chk == ReviewCheck(HasOrder(o), ReadOrder(o), u)
    IN /\ Idle(r)
       /\ IF chk.status # 200
            THEN Respond(r, chk)
            ELSE Suspend(r, [pc |-> "review_write", o |-> o, rating |-> rating,
                             review |-> review, day |-> today])
       /\ UNCHANGED <<users, products, orders, today>>

\* Order.findByIdAndUpdate of addOrderReview and the response; the schema
\* takes a rating from 1 to 5.
ReviewWrite(r) ==
    LET q == reqs[r] IN
    /\ q.pc = "review_write"
    /\ OrderWrite(r, "addOrderReview", q.o, q.rating \in 0..5,
                  [ReadOrder(q.o) EXCEPT
                      !.rating = IF q.rating # 0 THEN q.rating ELSE @,
                      !.review = IF q.review # "none" THEN q.review ELSE @,
                      !.reviewedAt = q.day])
    /\ UNCHANGED <<users, products, today>>

\* deleteOrder up to the await of Order.findByIdAndDelete: Order.findById
\* and the admin check.
DeleteOrderRead(r, o, u) ==
    /\ Idle(r)
    /\ IF ~HasOrder(o)
         THEN Respond(r, Resp("deleteOrder", 404, "Order not found"))
       ELSE IF ~IsAdmin(u)
         THEN Respond(r, Resp("deleteOrder", 403, "Only admin can delete orders"))
       ELSE Suspend(r, [pc |-> "deleteorder_write", o |-> o])
    /\ UNCHANGED <<users, products, orders, today>>

\* Order.findByIdAndDelete of deleteOrder and the response, 200 also when
\* the order is gone already.
DeleteOrderWrite(r) ==
    LET q == reqs[r] IN
    /\ q.pc = "deleteorder_write"
    /\ orders' = IF HasOrder(q.o) THEN [orders EXCEPT ![q.o] = NoOrder] ELSE orders
    /\ Respond(r, Resp("deleteOrder", 200, "ok"))
    /\ UNCHANGED <<users, products, today>>

\* authorize(...roles) in front of a route: the request goes on to the
\* controller only when the role of the requester is one of roles.
Authorize(roles, u) == Role(u) \in roles

\* PUT /:orderId/delivery-status: protect, authorize('admin'),
\* updateDeliveryStatus.
RouteDeliveryStatus(r, o, u, ds) ==
    IF Authorize({"admin"}, u)
      THEN DeliveryRead(r, o, u, ds)
      ELSE /\ Idle(r)
           /\ Respond(r, Resp("updateDeliveryStatus", 403, "role not authorized"))
           /\ UNCHANGED <<users, products, orders, today>>

\* PUT /:orderId/status: protect, authorize('admin'), updateOrderStatus.
RouteOrderStatus(r, o, u, os, ds, ps) ==
    IF Authorize({"admin"}, u)
      THEN OrderStatusRead(r, o, u, os, ds, ps)
      ELSE /\ Idle(r)
           /\ Respond(r, Resp("updateOrderStatus", 403, "role not authorized"))
           /\ UNCHANGED <<users, products, orders, today>>

(* ---------------------------- specifications --------------------------- *)
\* The slot of a specification that serves one request at a time.
SeqReqs == {"r1"}

SeqProducts == {"p1"}

\* A request is sent only while the bids it would store and the bids of the
\* requests in flight fit into max bids of the listing.
BidRoom(p, u, amt, addr, max) ==
    (/\ p \in DOMAIN products
     /\ PlaceBidCheck(TRUE, products[p], u, amt, addr).status = 200) =>
        Len(products[p].bids) + InFlight({"place_bidder", "place_save"}) < max

\* A request is sent only while the order it would store and the orders of
\* the requests in flight fit into max orders.
OrderRoom(p, u, bidId, max) ==
    (/\ p \in DOMAIN products
     /\ AcceptBidCheck(TRUE, products[p], u, bidId).status = 200) =>
        Len(orders) + InFlight({"accept_save", "accept_count", "accept_create"}) < max

\* Request bodies of updateMyProduct and updateProductStatus.
PriceBodies == {[pricePerKg |-> price] : price \in Prices}
StatusBodies == {[status |-> status] : status \in ProductStatuses}

\* Bodies a validator refuses (a negative price, a status outside the enum),
\* a location that is not JSON, and updates of the weight, the post type and
\* the bids.
OtherBodies ==
    {[pricePerKg |-> -1], [status |-> "pending"], [location |-> FALSE],
     [totalWeight |-> 0], [postType |-> "buy"], [bids |-> <<>>]}

\* One listing of u1, one request at a time: every user bids and accepts,
\* the owner edits the price or the status, the admin sets the status.
Next ==
    \/ \E r \in SeqReqs, p \in SeqProducts, u \in Owners, pt \in PostTypes,
          price \in Prices, w \in Weights : CreateWrite(r, p, u, pt, price, w, "ok")
    \/ \E r \in SeqReqs : CreateRespond(r)
    \/ \E r \in SeqReqs, p \in SeqProducts, u \in Users, amt \in BidAmounts :
          /\ BidRoom(p, u, amt, TRUE, MaxBids)
          /\ PlaceRead(r, p, u, amt, TRUE, "none")
    \/ \E r \in SeqReqs : PlaceBidder(r)
    \/ \E r \in SeqReqs : PlaceSave(r)
    \/ \E r \in SeqReqs : PlaceRespond(r)
    \/ \E r \in SeqReqs, p \in SeqProducts, u \in Users, bidId \in BidIds :
          /\ OrderRoom(p, u, bidId, MaxOrders)
          /\ AcceptRead(r, p, u, bidId, TRUE)
    \/ \E r \in SeqReqs : AcceptSave(r)
    \/ \E r \in SeqReqs : AcceptCount(r)
    \/ \E r \in SeqReqs : AcceptCreate(r)
    \/ \E r \in SeqReqs : AcceptRespond(r)
    \/ \E r \in SeqReqs, p \in SeqProducts, u \in Owners,
          body \in {NoBody} \cup PriceBodies \cup StatusBodies :
          UpdateMyRead(r, p, u, body)
    \/ \E r \in SeqReqs : UpdateMyWrite(r)
    \/ \E r \in SeqReqs, p \in SeqProducts, body \in StatusBodies : StatusRead(r, p, body)
    \/ \E r \in SeqReqs : StatusWrite(r)

Spec == Init /\ [][Next]_vars

\* One sell listing; createProduct, placeBid and acceptBid requests
\* interleave at their awaits, two at a time.
NextRace ==
    \/ \E r \in Reqs : CreateWrite(r, "p1", "u1", "sell", 2, 2, "ok")
    \/ \E r \in Reqs : CreateRespond(r)
    \/ \E r \in Reqs, u \in Users, amt \in {2, 3} :
          /\ BidRoom("p1", u, amt, TRUE, MaxRaceBids)
          /\ PlaceRead(r, "p1", u, amt, TRUE, "none")
    \/ \E r \in Reqs : PlaceBidder(r)
    \/ \E r \in Reqs : PlaceSave(r)
    \/ \E r \in Reqs : PlaceRespond(r)
    \/ \E r \in Reqs, u \in Owners, bidId \in 1..MaxRaceBids, exact \in BOOLEAN :
          /\ OrderRoom("p1", u, bidId, MaxRaceOrders)
          /\ AcceptRead(r, "p1", u, bidId, exact)
    \/ \E r \in Reqs : AcceptSave(r)
    \/ \E r \in Reqs : AcceptCount(r)
    \/ \E r \in Reqs : AcceptCreate(r)
    \/ \E r \in Reqs : AcceptRespond(r)

SpecRace == Init /\ [][NextRace]_vars

\* Two listings with one bidder each; acceptBid requests interleave at their
\* awaits, with each other and with deleteOrder requests of the admin, while
\* the day may move on.
NextOrd ==
    \/ \E p \in ProductIds : AllIdle /\ CreateWrite("r1", p, "u1", "sell", 1, 2, "ok")
    \/ CreateRespond("r1")
    \/ \E p \in ProductIds :
          /\ AllIdle
          /\ BidRoom(p, "u2", 2, TRUE, MaxBids)
          /\ PlaceRead("r1", p, "u2", 2, TRUE, "none")
    \/ PlaceBidder("r1")
    \/ PlaceSave("r1")
    \/ PlaceRespond("r1")
    \/ \E r \in Reqs, p \in ProductIds :
          /\ OrderRoom(p, "u1", 1, MaxOrders)
          /\ AcceptRead(r, p, "u1", 1, TRUE)
    \/ \E r \in Reqs : AcceptSave(r)
    \/ \E r \in Reqs : AcceptCount(r)
    \/ \E r \in Reqs : AcceptCreate(r)
    \/ \E r \in Reqs : AcceptRespond(r)
    \/ \E r \in Reqs, o \in 1..Len(orders) : DeleteOrderRead(r, o, "admin")
    \/ \E r \in Reqs : DeleteOrderWrite(r)
    \/ NextDay

SpecOrd == Init /\ [][NextOrd]_vars

\* Listings and bids with fractional prices: bids of 0.25, 0.75, 1.25 and
\* 55.00 on listings posted at 0.10 or 50.00 for 1, 3 or 100 kg.
MoneyPrices == {10, 5000}
MoneyBids == {25, 75, 125, 5500}
MoneyWeights == {1, 3, 100}

NextMoney ==
    \/ \E r \in SeqReqs, pt \in PostTypes, price \in MoneyPrices, w \in MoneyWeights :
          CreateWrite(r, "p1", "u1", pt, price, w, "ok")
    \/ \E r \in SeqReqs : CreateRespond(r)
    \/ \E r \in SeqReqs, u \in Users \ Owners, amt \in MoneyBids :
          /\ BidRoom("p1", u, amt, TRUE, MaxBids)
          /\ PlaceRead(r, "p1", u, amt, TRUE, "none")
    \/ \E r \in SeqReqs : PlaceBidder(r)
    \/ \E r \in SeqReqs : PlaceSave(r)
    \/ \E r \in SeqReqs : PlaceRespond(r)
    \/ \E r \in SeqReqs, bidId \in BidIds :
          /\ OrderRoom("p1", "u1", bidId, MaxOrders)
          /\ AcceptRead(r, "p1", "u1", bidId, TRUE)
    \/ \E r \in SeqReqs : AcceptSave(r)
    \/ \E r \in SeqReqs : AcceptCount(r)
    \/ \E r \in SeqReqs : AcceptCreate(r)
    \/ \E r \in SeqReqs : AcceptRespond(r)

SpecMoney == Init /\ [][NextMoney]_vars

\* One listing of an owner with or without a complete profile address; bids
\* with every amount, address and payment method; the listing is accepted by
\* its owner or set active or expired by the admin.  The listing is posted with
\* totalWeight 0, so acceptBid settles it and marks its bids and Order.create
\* refuses the order.
BidOwners == {"u1", "u3"}
PayMethods == {"none", "UPI"}

NextBid ==
    \/ \E r \in SeqReqs, u \in BidOwners, pt \in PostTypes :
          CreateWrite(r, "p1", u, pt, 2, 0, "ok")
    \/ \E r \in SeqReqs : CreateRespond(r)
    \/ \E r \in SeqReqs, u \in Users, amt \in BidAmounts, addr \in BOOLEAN,
          pm \in PayMethods :
          /\ BidRoom("p1", u, amt, addr, MaxBids)
          /\ PlaceRead(r, "p1", u, amt, addr, pm)
    \/ \E r \in SeqReqs : PlaceBidder(r)
    \/ \E r \in SeqReqs : PlaceSave(r)
    \/ \E r \in SeqReqs : PlaceRespond(r)
    \/ \E r \in SeqReqs, u \in BidOwners, bidId \in BidIds :
          /\ OrderRoom("p1", u, bidId, MaxOrders)
          /\ AcceptRead(r, "p1", u, bidId, TRUE)
    \/ \E r \in SeqReqs : AcceptSave(r)
    \/ \E r \in SeqReqs : AcceptCount(r)
    \/ \E r \in SeqReqs : AcceptCreate(r)
    \/ \E r \in SeqReqs, status \in {"active", "expired"} :
          StatusRead(r, "p1", [status |-> status])
    \/ \E r \in SeqReqs : StatusWrite(r)

SpecBid == Init /\ [][NextBid]_vars

\* One listing of u1: bids of u2 and u3, acceptBid by the owner or by u2
\* with the bid id spelt as stored or otherwise, and the owner's updates that
\* set the price or set the listing active again.
NextAccept ==
    \/ \E r \in SeqReqs, pt \in PostTypes, price \in Prices :
          CreateWrite(r, "p1", "u1", pt, price, 2, "ok")
    \/ \E r \in SeqReqs : CreateRespond(r)
    \/ \E r \in SeqReqs, u \in Users \ Owners, amt \in BidAmounts :
          /\ BidRoom("p1", u, amt, TRUE, MaxBids)
          /\ PlaceRead(r, "p1", u, amt, TRUE, "none")
    \/ \E r \in SeqReqs : PlaceBidder(r)
    \/ \E r \in SeqReqs : PlaceSave(r)
    \/ \E r \in SeqReqs : PlaceRespond(r)
    \/ \E r \in SeqReqs, u \in {"u1", "u2"}, bidId \in BidIds, exact \in BOOLEAN :
          /\ OrderRoom("p1", u, bidId, MaxOrders)
          /\ AcceptRead(r, "p1", u, bidId, exact)
    \/ \E r \in SeqReqs : AcceptSave(r)
    \/ \E r \in SeqReqs : AcceptCount(r)
    \/ \E r \in SeqReqs : AcceptCreate(r)
    \/ \E r \in SeqReqs : AcceptRespond(r)
    \/ \E r \in SeqReqs, body \in PriceBodies \cup {[status |-> "active"]} :
          UpdateMyRead(r, "p1", "u1", body)
    \/ \E r \in SeqReqs : UpdateMyWrite(r)

SpecAccept == Init /\ [][NextAccept]_vars

\* The User collection changes under one listing: u3 and the newcomer u4
\* register, u1 and u3 edit their profile address, the admin changes roles
\* and deletes u1 or u2; u1, u3 and the admin post a listing with a valid or
\* an invalid body, u2 and u4 bid on it and its owner accepts the first bid.
\* A request passes protect first.  The _id p1 is given to a new listing only
\* when no order refers to a deleted listing of that name.
UserOwners == {"u1", "u3"}
UserBidders == {"u2"} \cup NewUsers

NextUsers ==
    \/ \E r \in SeqReqs, u \in {"u3"} \cup NewUsers, role \in Roles \cup {"admin"},
          addr \in {"none", "full"}, confirmed \in BOOLEAN, mail \in BOOLEAN :
          RegisterRead(r, u, role, addr, confirmed, mail)
    \/ \E r \in SeqReqs : RegisterCreate(r)
    \/ \E r \in SeqReqs : RegisterSave(r)
    \/ \E r \in SeqReqs : RegisterMail(r)
    \/ \E u \in UserOwners, addr \in {"none", "full", "partial"} :
          AllIdle /\ Protect(u) /\ UpdateProfile(u, addr)
    \/ \E r \in SeqReqs, t \in {"u1"} \cup NewUsers, role \in Roles \cup {"none", "admin"} :
          UpdateUserRead(r, t, role)
    \/ \E r \in SeqReqs : UpdateUserWrite(r)
    \/ \E r \in SeqReqs, t \in {"u1", "u2"} : DeleteUserRead(r, t)
    \/ \E r \in SeqReqs : DeleteUserProducts(r)
    \/ \E r \in SeqReqs : DeleteUserOrders(r)
    \/ \E r \in SeqReqs : DeleteUserWrite(r)
    \/ \E r \in SeqReqs, u \in UserOwners \cup {"admin"}, pt \in PostTypes \cup {"none"},
          price \in {-1, 2}, body \in Bodies :
          /\ Protect(u)
          /\ OrdersOf("p1") = {}
          /\ CreateWrite(r, "p1", u, pt, price, 2, body)
    \/ \E r \in SeqReqs : CreateRespond(r)
    \/ \E r \in SeqReqs, u \in UserBidders, amt \in {1, 3} :
          /\ Protect(u)
          /\ BidRoom("p1", u, amt, TRUE, MaxBids)
          /\ PlaceRead(r, "p1", u, amt, TRUE, "none")
    \/ \E r \in SeqReqs : PlaceBidder(r)
    \/ \E r \in SeqReqs : PlaceSave(r)
    \/ \E r \in SeqReqs : PlaceRespond(r)
    \/ \E r \in SeqReqs, u \in UserOwners, exact \in BOOLEAN :
          /\ Protect(u)
          /\ OrderRoom("p1", u, 1, MaxOrders)
          /\ AcceptRead(r, "p1", u, 1, exact)
    \/ \E r \in SeqReqs : AcceptSave(r)
    \/ \E r \in SeqReqs : AcceptCount(r)
    \/ \E r \in SeqReqs : AcceptCreate(r)
    \/ \E r \in SeqReqs : AcceptRespond(r)

SpecUsers == Init /\ [][NextUsers]_vars

\* One sell listing whose owner hands it to another user through the body of
\* updateMyProduct.
NextOwner ==
    \/ \E r \in SeqReqs : CreateWrite(r, "p1", "u1", "sell", 1, 2, "ok")
    \/ \E r \in SeqReqs : CreateRespond(r)
    \/ \E r \in SeqReqs, u \in Users, amt \in {1, 2} :
          /\ BidRoom("p1", u, amt, TRUE, MaxBids)
          /\ PlaceRead(r, "p1", u, amt, TRUE, "none")
    \/ \E r \in SeqReqs : PlaceBidder(r)
    \/ \E r \in SeqReqs : PlaceSave(r)
    \/ \E r \in SeqReqs : PlaceRespond(r)
    \/ \E r \in SeqReqs, u \in Users, owner \in Users :
          UpdateMyRead(r, "p1", u, [user |-> owner])
    \/ \E r \in SeqReqs : UpdateMyWrite(r)
    \/ \E r \in SeqReqs, status \in {"active", "expired"} :
          StatusRead(r, "p1", [status |-> status])
    \/ \E r \in SeqReqs : StatusWrite(r)

SpecOwner == Init /\ [][NextOwner]_vars

\* One listing of u1 on which u2 and u3 bid and bid again: the owner accepts
\* a bid, the admin sets the listing active again.
NextRebid ==
    \/ \E r \in SeqReqs, pt \in PostTypes : CreateWrite(r, "p1", "u1", pt, 2, 2, "ok")
    \/ \E r \in SeqReqs : CreateRespond(r)
    \/ \E r \in SeqReqs, u \in Users \ Owners, amt \in {1, 3} :
          /\ BidRoom("p1", u, amt, TRUE, MaxRebids)
          /\ PlaceRead(r, "p1", u, amt, TRUE, "none")
    \/ \E r \in SeqReqs : PlaceBidder(r)
    \/ \E r \in SeqReqs : PlaceSave(r)
    \/ \E r \in SeqReqs : PlaceRespond(r)
    \/ \E r \in SeqReqs, bidId \in 1..MaxRebids, exact \in BOOLEAN :
          /\ OrderRoom("p1", "u1", bidId, MaxOrders)
          /\ AcceptRead(r, "p1", "u1", bidId, exact)
    \/ \E r \in SeqReqs : AcceptSave(r)
    \/ \E r \in SeqReqs : AcceptCount(r)
    \/ \E r \in SeqReqs : AcceptCreate(r)
    \/ \E r \in SeqReqs : AcceptRespond(r)
    \/ \E r \in SeqReqs : StatusRead(r, "p1", [status |-> "active"])
    \/ \E r \in SeqReqs : StatusWrite(r)

SpecRebid == Init /\ [][NextRebid]_vars


\* One listing of u1 with the bids of the users: a user and the admin send
\* every kind of update body.  A body that empties the bids is sent while
\* __v of the listing is at most MaxBids.
NextUpdate ==
    \/ \E r \in SeqReqs, pt \in PostTypes : CreateWrite(r, "p1", "u1", pt, 2, 2, "ok")
    \/ \E r \in SeqReqs : CreateRespond(r)
    \/ \E r \in SeqReqs, u \in Users, amt \in {1, 3} :
          /\ BidRoom("p1", u, amt, TRUE, MaxBids)
          /\ PlaceRead(r, "p1", u, amt, TRUE, "none")
    \/ \E r \in SeqReqs : PlaceBidder(r)
    \/ \E r \in SeqReqs : PlaceSave(r)
    \/ \E r \in SeqReqs : PlaceRespond(r)
    \/ \E r \in SeqReqs, u \in {"u1", "u2"},
          body \in {NoBody} \cup PriceBodies \cup StatusBodies \cup OtherBodies :
          /\ ("bids" \in DOMAIN body /\ "p1" \in DOMAIN products) =>
                products["p1"].v <= MaxBids
          /\ UpdateMyRead(r, "p1", u, body)
    \/ \E r \in SeqReqs : UpdateMyWrite(r)
    \/ \E r \in SeqReqs,
          body \in {NoBody, [status |-> "pending"], [status |-> "active", pricePerKg |-> 1]}
                     \cup StatusBodies :
          StatusRead(r, "p1", body)
    \/ \E r \in SeqReqs : StatusWrite(r)

SpecUpdate == Init /\ [][NextUpdate]_vars

\* The handlers of the older product controller on a sell listing that the
\* present createProduct and placeBid filled, two requests at a time.  The
\* listing is created by the first request, so that once it is deleted its
\* id is not given to another listing.
NextLegacy ==
    \/ \E r \in Reqs :
          /\ AllIdle /\ lastResp = NoResp
          /\ CreateWrite(r, "p1", "u1", "sell", 2, 2, "ok")
    \/ \E r \in Reqs : CreateRespond(r)
    \/ \E r \in Reqs, u \in Users \ Owners :
          /\ BidRoom("p1", u, 3, TRUE, MaxBids)
          /\ PlaceRead(r, "p1", u, 3, TRUE, "none")
    \/ \E r \in Reqs : PlaceBidder(r)
    \/ \E r \in Reqs : PlaceSave(r)
    \/ \E r \in Reqs : PlaceRespond(r)
    \/ \E r \in Reqs, body \in Bodies : LegacyCreateProduct(r, body)
    \/ \E r \in Reqs, u \in {"u1", "u2"} : LegacyPlaceRead(r, "p1", u, 3)
    \/ \E r \in Reqs : LegacyPlaceSave(r)
    \/ \E r \in Reqs, u \in {"u1", "u2"}, bidId \in BidIds :
          LegacyAcceptRead(r, "p1", u, bidId, TRUE)
    \/ \E r \in Reqs : LegacyAcceptSave(r)
    \/ \E r \in Reqs : LegacyAcceptRespond(r)
    \/ \E r \in Reqs : DeleteProductRead(r, "p1")
    \/ \E r \in Reqs : DeleteProductWrite(r)

SpecLegacy == Init /\ [][NextLegacy]_vars
\* A sell listing of u1 (seller) with a bid of u2 (buyer) that u1 accepts,
\* which creates the first order; one request at a time.
FirstOrder ==
    \/ \E r \in SeqReqs : CreateWrite(r, "p1", "u1", "sell", 1, 2, "ok")
    \/ \E r \in SeqReqs : CreateRespond(r)
    \/ \E r \in SeqReqs :
          /\ BidRoom("p1", "u2", 2, TRUE, MaxBids)
          /\ PlaceRead(r, "p1", "u2", 2, TRUE, "none")
    \/ \E r \in SeqReqs : PlaceBidder(r)
    \/ \E r \in SeqReqs : PlaceSave(r)
    \/ \E r \in SeqReqs : PlaceRespond(r)
    \/ \E r \in SeqReqs :
          /\ orders = <<>>
          /\ AcceptRead(r, "p1", "u1", 1, TRUE)
    \/ \E r \in SeqReqs : AcceptSave(r)
    \/ \E r \in SeqReqs : AcceptCount(r)
    \/ \E r \in SeqReqs : AcceptCreate(r)
    \/ \E r \in SeqReqs : AcceptRespond(r)

\* The first order and the order routes called on it one request at a time,
\* deleteOrder among them.
LifePaymentStatuses == {"none", "Paid", "Unpaid"}
LifeOrderStatuses == {"none", "Processing", "Cancelled"}
LifeDeliveryStatuses == {"none", "Shipped", "Delivered"}
Ratings == {0, 5}
Reviews == {"good", "bad"}

NextLife ==
    \/ FirstOrder
    \/ \E r \in SeqReqs, u \in {"admin", "u2"}, os \in LifeOrderStatuses,
          ds \in LifeDeliveryStatuses, ps \in LifePaymentStatuses :
          OrderStatusRead(r, 1, u, os, ds, ps)
    \/ \E r \in SeqReqs : OrderStatusWrite(r)
    \/ \E r \in SeqReqs, u \in {"admin", "u1", "u3"}, ds \in {"Shipped", "Delivered"} :
          DeliveryRead(r, 1, u, ds)
    \/ \E r \in SeqReqs : DeliveryWrite(r)
    \/ \E r \in SeqReqs, u \in Users : CancelRead(r, 1, u)
    \/ \E r \in SeqReqs : CancelWrite(r)
    \/ \E r \in SeqReqs, u \in Users, rating \in Ratings, review \in Reviews :
          ReviewRead(r, 1, u, rating, review)
    \/ \E r \in SeqReqs : ReviewWrite(r)
    \/ \E r \in SeqReqs, u \in {"admin", "u1"} : DeleteOrderRead(r, 1, u)
    \/ \E r \in SeqReqs : DeleteOrderWrite(r)
    \/ NextDay

SpecLife == Init /\ [][NextLife]_vars

\* The first order with cancelOrder, updateDeliveryStatus and deleteOrder
\* requests interleaving at their awaits, two at a time.
NextCancel ==
    \/ FirstOrder
    \/ \E r \in Reqs, u \in Users : CancelRead(r, 1, u)
    \/ \E r \in Reqs : CancelWrite(r)
    \/ \E r \in Reqs, u \in {"admin", "u3"}, ds \in {"Shipped", "Delivered"} :
          DeliveryRead(r, 1, u, ds)
    \/ \E r \in Reqs : DeliveryWrite(r)
    \/ \E r \in Reqs : DeleteOrderRead(r, 1, "admin")
    \/ \E r \in Reqs : DeleteOrderWrite(r)

SpecCancel == Init /\ [][NextCancel]_vars

\* The order routes as mounted by the order router, called on the first
\* order.
RouteDeliveryStatuses == {"Confirmed", "Shipped", "Delivered"}
RoutePaymentStatuses == {"Paid", "Failed"}

NextRoute ==
    \/ FirstOrder
    \/ \E r \in SeqReqs, u \in Callers, ds \in RouteDeliveryStatuses :
          RouteDeliveryStatus(r, 1, u, ds)
    \/ \E r \in SeqReqs : DeliveryWrite(r)
    \/ \E r \in SeqReqs, u \in Callers, os \in {"Processing", "Cancelled"} :
          RouteOrderStatus(r, 1, u, os, "none", "none")
    \/ \E r \in SeqReqs : OrderStatusWrite(r)
    \/ \E r \in SeqReqs, u \in Callers, ps \in RoutePaymentStatuses : PaymentRead(r, 1, u, ps)
    \/ \E r \in SeqReqs : PaymentWrite(r)
    \/ \E r \in SeqReqs, u \in Callers : CancelRead(r, 1, u)
    \/ \E r \in SeqReqs : CancelWrite(r)

SpecRoute == Init /\ [][NextRoute]_vars

\* Every order operation called by every requester on the first order, which
\* acceptBid creates from a sell or buy listing of u1 with a bid of u2.
OpsOrderStatuses == {"none", "Completed", "Cancelled"}
OpsDeliveryStatuses == {"none", "Shipped", "Delivered"}
OpsPaymentStatuses == {"none", "Paid"}

NextOps ==
    \/ \E r \in SeqReqs, pt \in PostTypes : CreateWrite(r, "p1", "u1", pt, 2, 2, "ok")
    \/ \E r \in SeqReqs : CreateRespond(r)
    \/ \E r \in SeqReqs, amt \in {1, 3} :
          /\ BidRoom("p1", "u2", amt, TRUE, MaxBids)
          /\ PlaceRead(r, "p1", "u2", amt, TRUE, "none")
    \/ \E r \in SeqReqs : PlaceBidder(r)
    \/ \E r \in SeqReqs : PlaceSave(r)
    \/ \E r \in SeqReqs : PlaceRespond(r)
    \/ \E r \in SeqReqs :
          /\ orders = <<>>
          /\ AcceptRead(r, "p1", "u1", 1, TRUE)
    \/ \E r \in SeqReqs : AcceptSave(r)
    \/ \E r \in SeqReqs : AcceptCount(r)
    \/ \E r \in SeqReqs : AcceptCreate(r)
    \/ \E r \in SeqReqs : AcceptRespond(r)
    \/ \E r \in SeqReqs, u \in Callers, os \in OpsOrderStatuses, ds \in OpsDeliveryStatuses,
          ps \in OpsPaymentStatuses : OrderStatusRead(r, 1, u, os, ds, ps)
    \/ \E r \in SeqReqs : OrderStatusWrite(r)
    \/ \E r \in SeqReqs, u \in Callers, ds \in OpsDeliveryStatuses : DeliveryRead(r, 1, u, ds)
    \/ \E r \in SeqReqs : DeliveryWrite(r)
    \/ \E r \in SeqReqs, u \in Callers, ps \in OpsPaymentStatuses \cup {"Unpaid"} :
          PaymentRead(r, 1, u, ps)
    \/ \E r \in SeqReqs : PaymentWrite(r)
    \/ \E r \in SeqReqs, u \in Callers : CancelRead(r, 1, u)
    \/ \E r \in SeqReqs : CancelWrite(r)
    \/ \E r \in SeqReqs, u \in Callers, rating \in Ratings : ReviewRead(r, 1, u, rating, "good")
    \/ \E r \in SeqReqs : ReviewWrite(r)

SpecOps == Init /\ [][NextOps]_vars

\* The first order under every order operation of an entitled requester,
\* while the listing is bid on, edited, reopened and accepted again.
NextFrame ==
    \/ \E r \in SeqReqs, pt \in PostTypes : CreateWrite(r, "p1", "u1", pt, 2, 2, "ok")
    \/ \E r \in SeqReqs : CreateRespond(r)
    \/ \E r \in SeqReqs, u \in {"u2", "u3"}, amt \in {1, 3} :
          /\ BidRoom("p1", u, amt, TRUE, MaxBids)
          /\ PlaceRead(r, "p1", u, amt, TRUE, "none")
    \/ \E r \in SeqReqs : PlaceBidder(r)
    \/ \E r \in SeqReqs : PlaceSave(r)
    \/ \E r \in SeqReqs : PlaceRespond(r)
    \/ \E r \in SeqReqs, bidId \in BidIds :
          /\ OrderRoom("p1", "u1", bidId, MaxOrders)
          /\ AcceptRead(r, "p1", "u1", bidId, TRUE)
    \/ \E r \in SeqReqs : AcceptSave(r)
    \/ \E r \in SeqReqs : AcceptCount(r)
    \/ \E r \in SeqReqs : AcceptCreate(r)
    \/ \E r \in SeqReqs : AcceptRespond(r)
    \/ \E r \in SeqReqs :
          UpdateMyRead(r, "p1", "u1", [pricePerKg |-> 2, status |-> "active"])
    \/ \E r \in SeqReqs : UpdateMyWrite(r)
    \/ \E r \in SeqReqs, os \in {"none", "Cancelled"} :
          OrderStatusRead(r, 1, "admin", os, "none", "Paid")
    \/ \E r \in SeqReqs : OrderStatusWrite(r)
    \/ \E r \in SeqReqs : DeliveryRead(r, 1, "admin", "Delivered")
    \/ \E r \in SeqReqs : DeliveryWrite(r)
    \/ \E r \in SeqReqs : PaymentRead(r, 1, "admin", "Paid")
    \/ \E r \in SeqReqs : PaymentWrite(r)
    \/ \E r \in SeqReqs, u \in {"u1", "u2"} : CancelRead(r, 1, u)
    \/ \E r \in SeqReqs : CancelWrite(r)
    \/ \E r \in SeqReqs, u \in {"u1", "u2"} : ReviewRead(r, 1, u, 5, "good")
    \/ \E r \in SeqReqs : ReviewWrite(r)

SpecFrame == Init /\ [][NextFrame]_vars

\* placeBid and acceptBid alone, called by every user on a sell or buy
\* listing of u1 or u2.
PartyOwners == {"u1", "u2"}

NextParties ==
    \/ \E r \in SeqReqs, u \in PartyOwners, pt \in PostTypes :
          CreateWrite(r, "p1", u, pt, 2, 2, "ok")
    \/ \E r \in SeqReqs : CreateRespond(r)
    \/ \E r \in SeqReqs, u \in Users, amt \in {1, 3} :
          /\ BidRoom("p1", u, amt, TRUE, MaxBids)
          /\ PlaceRead(r, "p1", u, amt, TRUE, "none")
    \/ \E r \in SeqReqs : PlaceBidder(r)
    \/ \E r \in SeqReqs : PlaceSave(r)
    \/ \E r \in SeqReqs : PlaceRespond(r)
    \/ \E r \in SeqReqs, u \in Users, bidId \in BidIds, exact \in BOOLEAN :
          /\ OrderRoom("p1", u, bidId, MaxOrders)
          /\ AcceptRead(r, "p1", u, bidId, exact)
    \/ \E r \in SeqReqs : AcceptSave(r)
    \/ \E r \in SeqReqs : AcceptCount(r)
    \/ \E r \in SeqReqs : AcceptCreate(r)
    \/ \E r \in SeqReqs : AcceptRespond(r)

SpecParties == Init /\ [][NextParties]_vars

\* Two listings of u1 that are bid on, accepted, updated and deleted by their
\* owner and by the admin.  The id of a deleted listing is not given to a new
\* one while an order refers to it.
NextListing ==
    \/ \E r \in SeqReqs, p \in ProductIds, pt \in PostTypes :
          /\ OrdersOf(p) = {}
          /\ CreateWrite(r, p, "u1", pt, 2, 2, "ok")
    \/ \E r \in SeqReqs : CreateRespond(r)
    \/ \E r \in SeqReqs, p \in ProductIds, amt \in {1, 3} :
          /\ BidRoom(p, "u2", amt, TRUE, MaxBids)
          /\ PlaceRead(r, p, "u2", amt, TRUE, "none")
    \/ \E r \in SeqReqs : PlaceBidder(r)
    \/ \E r \in SeqReqs : PlaceSave(r)
    \/ \E r \in SeqReqs : PlaceRespond(r)
    \/ \E r \in SeqReqs, p \in ProductIds :
          /\ OrderRoom(p, "u1", 1, MaxOrders)
          /\ AcceptRead(r, p, "u1", 1, TRUE)
    \/ \E r \in SeqReqs : AcceptSave(r)
    \/ \E r \in SeqReqs : AcceptCount(r)
    \/ \E r \in SeqReqs : AcceptCreate(r)
    \/ \E r \in SeqReqs : AcceptRespond(r)
    \/ \E r \in SeqReqs, p \in ProductIds, u \in {"u1", "u2"} : DeleteMyRead(r, p, u)
    \/ \E r \in SeqReqs : DeleteMyWrite(r)
    \/ \E r \in SeqReqs, p \in ProductIds : DeleteProductRead(r, p)
    \/ \E r \in SeqReqs : DeleteProductWrite(r)
    \/ \E r \in SeqReqs, p \in ProductIds, status \in {"active", "expired"} :
          UpdateMyRead(r, p, "u1", [status |-> status])
    \/ \E r \in SeqReqs : UpdateMyWrite(r)
    \/ \E r \in SeqReqs, p \in ProductIds, status \in {"active", "cancelled"} :
          StatusRead(r, p, [status |-> status])
    \/ \E r \in SeqReqs : StatusWrite(r)

SpecListing == Init /\ [][NextListing]_vars


(* ---------------------------- properties ------------------------------- *)
AcceptedBids(p) ==
    {i \in 1..Len(products[p].bids) : products[p].bids[i].status = "accepted"}

IsSettled(p) == products[p].status \in Settled

\* C1: at most one bid of a listing is accepted at any time, and once a bid
\* is accepted no other bid of that listing is accepted in any later state.
C1_OnlyOneBidEverAccepted ==
    [][\A p \in DOMAIN products \cap DOMAIN products' :
          /\ Cardinality(AcceptedBids(p)) <= 1
          /\ \A i \in AcceptedBids(p) :
                \A j \in 1..Len(products'[p].bids) :
                    products'[p].bids[j].status = "accepted" => j = i]_vars

\* C2: once every request has been answered, every sold or purchased listing
\* has exactly one order referencing it and no listing has more than one
\* order.
C2_OneOrderPerSettledListing ==
    AllIdle =>
        \A p \in DOMAIN products :
            /\ Cardinality(OrdersOf(p)) <= 1
            /\ IsSettled(p) => Cardinality(OrdersOf(p)) = 1

\* C3: a listing has an accepted bid only if it is sold or purchased, and a
\* sold or purchased listing has exactly one accepted bid.
C3_AcceptedIffSettled ==
    \A p \in DOMAIN products :
        /\ AcceptedBids(p) # {} => IsSettled(p)
        /\ IsSettled(p) => Cardinality(AcceptedBids(p)) = 1

\* C4: a listing's status changes only from active, and never again once it
\* is sold, purchased, expired or cancelled.
C4_StatusOnlyForward ==
    [][\A p \in DOMAIN products \cap DOMAIN products' :
          products'[p].status # products[p].status
              => products[p].status = "active"]_vars

\* C5: with placeBid and acceptBid requests interleaving at their database
\* reads and writes, no listing has two accepted bids and no active listing
\* has a bidWinner.
C5_NoDoubleAcceptUnderRace ==
    \A p \in DOMAIN products :
        /\ Cardinality(AcceptedBids(p)) <= 1
        /\ ~(products[p].status = "active" /\ products[p].bidWinner # NoWinner)

\* C6: when acceptBid has saved the settled listing and the creation of the
\* order then fails, the response is a distinct reconciliation error.
C6_OrderFailureSurfacedAsReconciliation ==
    (/\ lastResp.op = "acceptBid"
     /\ lastResp.status = 500
     /\ \E p \in DOMAIN products : IsSettled(p) /\ OrdersOf(p) = {})
        => lastResp.msg = "ReconciliationError"

\* C7: the order numbers of orders created on the same day are pairwise
\* distinct, also when acceptBid requests interleave between counting the
\* day's orders and creating the order.
C7_OrderNumbersDistinct ==
    \A i, j \in 1..Len(orders) :
        (i # j /\ HasOrder(i) /\ HasOrder(j)
           /\ orders[i].createdAt = orders[j].createdAt)
            => orders[i].orderNumber # orders[j].orderNumber

\* Two stored orders of different listings created on the same day.
C7_Witness ==
    /\ Len(orders) >= 2
    /\ HasOrder(1) /\ HasOrder(2)
    /\ orders[1].createdAt = orders[2].createdAt
    /\ orders[1].product # orders[2].product

\* C8: once acceptBid requests that ran concurrently on distinct listings on
\* one day have all responded, every settled listing has its order and the
\* day's orders carry the sequence numbers 1..N, as long as no order was
\* deleted.
C8_AllConcurrentAcceptsGetOrders ==
    (AllIdle /\ today = 1 /\ \A i \in 1..Len(orders) : HasOrder(i)) =>
        /\ \A p \in DOMAIN products : IsSettled(p) => OrdersOf(p) # {}
        /\ {orders[i].orderNumber[2] : i \in 1..Len(orders)} = 1..Len(orders)

\* C9: the pricePerKg of an order created from a sell listing is strictly
\* greater than the price the listing was originally posted at.
C9_SellOrderAbovePostedPrice ==
    \A i \in 1..Len(orders) :
        (orders[i].postType = "sell" /\ orders[i].product \in DOMAIN products)
            => orders[i].pricePerKg > products[orders[i].product].postedPrice

\* C10: the pricePerKg of an order created from a buy listing is strictly
\* less than the listing's posted pricePerKg when the order is created.
C10_BuyOrderBelowPostedPrice ==
    [][(Len(orders') = Len(orders) + 1 /\ orders'[Len(orders')].postType = "buy")
          => orders'[Len(orders')].pricePerKg
                < products'[orders'[Len(orders')].product].pricePerKg]_vars

\* C11: in every order, counted in cents, the platform commission and the
\* seller's net add up to the gross total.
C11_CommissionPlusNetIsTotal ==
    \A i \in 1..Len(orders) :
        orders[i].companyRevenue + orders[i].sellerEarning = orders[i].totalPrice

\* C12: in every order the commission is 2% of the total rounded half-up to
\* whole cents, the seller's net is the total minus that rounded commission
\* and the buyer pays the total.
C12_CommissionHalfUpNetIsRest ==
    \A i \in 1..Len(orders) :
        /\ orders[i].companyRevenue = HalfUp(2 * orders[i].totalPrice, 100)
        /\ orders[i].sellerEarning = orders[i].totalPrice - orders[i].companyRevenue
        /\ orders[i].buyerPayment = orders[i].totalPrice

\* The order a step appends and the listing it was created from, after the
\* step.
NewOrder == orders'[Len(orders')]
OrderAppended == Len(orders') = Len(orders) + 1

\* C13: an order is created by the Order.create of an acceptBid and priced at
\* the bid that request accepted, however the request spells the bid id: its
\* pricePerKg is that bid's bidAmount, its quantity the listing's totalWeight
\* and its totalPrice their product, for sell and buy posts.
C13_OrderPricedAtAcceptedBid ==
    [][OrderAppended =>
        /\ \E r \in SeqReqs : AcceptCreate(r)
        /\ \A r \in SeqReqs :
              AcceptCreate(r) =>
                LET doc == products[reqs[r].p]
                    bid == doc.bids[reqs[r].bidId]
                IN /\ NewOrder.product = reqs[r].p
                   /\ NewOrder.pricePerKg = bid.bidAmount
                   /\ NewOrder.quantity = doc.totalWeight
                   /\ NewOrder.totalPrice = doc.totalWeight * bid.bidAmount]_vars

\* An order of a buy post whose price is the bid, not the posted price.
C13_Witness ==
    \E i \in 1..Len(orders) :
        LET doc == products[orders[i].product]
        IN /\ orders[i].postType = "buy"
           /\ doc.status = "purchased"
           /\ orders[i].pricePerKg = doc.bidWinner.bidAmount
           /\ orders[i].pricePerKg # doc.pricePerKg
           /\ orders[i].totalPrice = doc.totalWeight * doc.bidWinner.bidAmount
           /\ orders[i].totalPrice # doc.totalWeight * doc.pricePerKg

\* C14: an order of a sell post has the post owner as seller and the accepted
\* bidder as buyer; an order of a buy post has the post owner as buyer and
\* the accepted bidder as seller.
C14_PartiesFollowPostType ==
    [][OrderAppended =>
        \A r \in SeqReqs :
            AcceptCreate(r) =>
              LET doc == products[reqs[r].p]
                  bid == doc.bids[reqs[r].bidId]
              IN /\ NewOrder.postType = doc.postType
                 /\ doc.postType = "sell" =>
                       NewOrder.seller = doc.user /\ NewOrder.buyer = bid.user
                 /\ doc.postType = "buy" =>
                       NewOrder.buyer = doc.user /\ NewOrder.seller = bid.user]_vars

\* An order of a buy post: the owner buys, the bidder sells.
C14_Witness ==
    \E i \in 1..Len(orders) :
        LET doc == products[orders[i].product]
        IN /\ orders[i].postType = "buy"
           /\ doc.postType = "buy"
           /\ orders[i].buyer = doc.user
           /\ orders[i].seller = doc.bidWinner.user
           /\ orders[i].seller # orders[i].buyer

\* C15: when acceptBid answers with success, the listing is sold (sell post)
\* or purchased (buy post), with soldAt set and bidWinner holding the bidder
\* and the bidAmount of the bid the request named.
C15_AcceptSettlesListing ==
    [][\A r \in SeqReqs :
          AcceptRespond(r) =>
            LET doc == products'[reqs[r].p]
                bid == doc.bids[reqs[r].bidId]
            IN /\ lastResp' = Resp("acceptBid", 200, "ok")
               /\ doc.status = (IF doc.postType = "sell" THEN "sold" ELSE "purchased")
               /\ doc.soldAt = today
               /\ doc.bidWinner = [user |-> bid.user, bidAmount |-> bid.bidAmount]]_vars

\* A buy post after a successful acceptBid.
C15_Witness ==
    /\ lastResp = Resp("acceptBid", 200, "ok")
    /\ "p1" \in DOMAIN products
    /\ products["p1"].postType = "buy"
    /\ products["p1"].status = "purchased"
    /\ products["p1"].soldAt # 0
    /\ \E k \in 1..Len(products["p1"].bids) :
          /\ products["p1"].bids[k].status = "accepted"
          /\ products["p1"].bidWinner.user = products["p1"].bids[k].user
          /\ products["p1"].bidWinner.bidAmount = products["p1"].bids[k].bidAmount

\* C16: the write of acceptBid is whole: every step that changes the status
\* of a stored bid leaves the listing with the target accepted and every
\* other bid rejected (no pending bid, an accepted bid), a settled status and
\* a bidWinner.
C16_AcceptWriteIsWhole ==
    [][\A p \in DOMAIN products :
          (/\ p \in DOMAIN products'
           /\ \E i \in 1..Len(products[p].bids) :
                 products'[p].bids[i].status # products[p].bids[i].status) =>
              LET doc == products'[p]
              IN /\ \A i \in 1..Len(doc.bids) : doc.bids[i].status # "pending"
                 /\ \E i \in 1..Len(doc.bids) : doc.bids[i].status = "accepted"
                 /\ doc.status \in Settled
                 /\ doc.bidWinner # NoWinner]_vars

\* C17: acceptBid called by a user who does not own the listing is answered
\* 403 not authorized once the listing is read and changes neither the
\* listing (status, bids, bidWinner) nor the orders.
C17_NonOwnerAcceptRejected ==
    [][\A r \in SeqReqs, p \in SeqProducts, u \in Users, bidId \in BidIds,
          exact \in BOOLEAN :
            (/\ p \in DOMAIN products
             /\ products[p].user # u
             /\ AcceptRead(r, p, u, bidId, exact)) =>
                /\ reqs'[r] = IdleReq
                /\ lastResp' = Resp("acceptBid", 403, "Not authorized")
                /\ UNCHANGED <<products, orders>>]_vars

\* A non-owner's acceptBid was refused on an active listing that has a
\* pending bid, and the listing is as it was.
C17_Witness ==
    /\ lastResp = Resp("acceptBid", 403, "Not authorized")
    /\ "p1" \in DOMAIN products
    /\ products["p1"].status = "active"
    /\ products["p1"].bidWinner = NoWinner
    /\ \E i \in 1..Len(products["p1"].bids) : products["p1"].bids[i].status = "pending"
    /\ orders = <<>>

\* C18: acceptBid called by the owner with a bid id the listing does not have,
\* or with a bid whose status is not pending, is answered bid not found once
\* the listing is read and changes neither the listing nor the orders.
C18_OnlyPendingBidAccepted ==
    [][\A r \in SeqReqs, p \in SeqProducts, u \in Users, bidId \in BidIds :
            (/\ p \in DOMAIN products
             /\ products[p].user = u
             /\ \/ bidId \notin 1..Len(products[p].bids)
                \/ products[p].bids[bidId].status # "pending"
             /\ AcceptRead(r, p, u, bidId, TRUE)) =>
                /\ reqs'[r] = IdleReq
                /\ lastResp' = Resp("acceptBid", 404, "Bid not found")
                /\ UNCHANGED <<products, orders>>]_vars

\* C19: acceptBid on a listing whose status is not active (sold, purchased,
\* expired, cancelled) is refused once the listing is read, so that it
\* changes no bid and creates no order.
C19_OnlyActiveListingAccepts ==
    [][\A r \in SeqReqs, p \in SeqProducts, u \in Users, bidId \in BidIds :
            (/\ p \in DOMAIN products
             /\ products[p].status # "active"
             /\ AcceptRead(r, p, u, bidId, TRUE)) =>
                /\ reqs'[r] = IdleReq
                /\ lastResp'.status # 200
                /\ UNCHANGED <<products, orders>>]_vars

\* C20: on every listing each bidder has at most one pending bid, also when
\* placeBid requests interleave between their read and their save.
C20_OnePendingBidPerBidder ==
    \A p \in DOMAIN products, u \in Users :
        Cardinality({i \in 1..Len(products[p].bids) :
                        /\ products[p].bids[i].user = u
                        /\ products[p].bids[i].status = "pending"}) <= 1

\* The user has a bid on the listing that is still pending.
StillPending(doc, u) ==
    \E i \in 1..Len(doc.bids) : doc.bids[i].user = u /\ doc.bids[i].status = "pending"

\* The user's bid on the listing was rejected by the acceptance of another
\* bid and the user has no pending bid on it.
RejectedByAcceptance(doc, u) ==
    /\ \E i \in 1..Len(doc.bids) : doc.bids[i].user = u /\ doc.bids[i].status = "rejected"
    /\ \E i \in 1..Len(doc.bids) : doc.bids[i].status = "accepted"
    /\ ~StillPending(doc, u)

\* The amount satisfies the price rule of the listing.
PriceRuleMet(doc, amt) ==
    IF doc.postType = "sell" THEN amt > doc.pricePerKg ELSE amt < doc.pricePerKg

\* C21 as stated: a bidder whose bid was rejected by the acceptance of another
\* bid can place a new bid on the same listing (the amount meeting the price
\* rule, the address given): the request is not refused when the listing is
\* read.
C21_RejectedBidderCanRebid ==
    [][\A r \in SeqReqs, u \in Users \ Owners, amt \in {1, 3} :
            (/\ "p1" \in DOMAIN products
             /\ RejectedByAcceptance(products["p1"], u)
             /\ PriceRuleMet(products["p1"], amt)
             /\ PlaceRead(r, "p1", u, amt, TRUE, "none")) =>
                reqs'[r].pc = "place_bidder"]_vars

\* C21 amended: the duplicate rule counts pending bids only.  On an active
\* listing a bidder whose bid was rejected by the acceptance of another bid
\* places a new bid, which is appended; a bidder whose bid is still pending
\* is rejected as a duplicate and the listing is unchanged.
C21_RebidOnceListingActiveAgain ==
    [][\A r \in SeqReqs :
          /\ \A u \in Users \ Owners, amt \in {1, 3} :
                (/\ "p1" \in DOMAIN products
                 /\ products["p1"].status = "active"
                 /\ PlaceRead(r, "p1", u, amt, TRUE, "none")) =>
                    reqs'[r].pc = "place_bidder"
          /\ (PlaceBidder(r) /\ PriceRuleMet(products["p1"], reqs[r].amt)) =>
                /\ RejectedByAcceptance(products["p1"], reqs[r].u) =>
                      /\ reqs'[r].pc = "place_save"
                      /\ reqs'[r].bid = NewBid(reqs[r].u, reqs[r].amt)
                /\ StillPending(products["p1"], reqs[r].u) =>
                      /\ reqs'[r] = IdleReq
                      /\ lastResp' = Resp("placeBid", 400, "You already have a pending bid")
                      /\ UNCHANGED products
          /\ PlaceSave(r) =>
                /\ reqs'[r].pc = "place_respond"
                /\ products'["p1"].bids = Append(products["p1"].bids, reqs[r].bid)
          /\ PlaceRespond(r) =>
                /\ lastResp' = Resp("placeBid", 200, "ok")
                /\ UNCHANGED products]_vars

\* A bidder's first bid was rejected by the acceptance of another bid and the
\* same bidder's new bid has just been appended.
C21_Witness ==
    /\ lastResp = Resp("placeBid", 200, "ok")
    /\ "p1" \in DOMAIN products
    /\ LET bids == products["p1"].bids
       IN /\ Len(bids) = 3
          /\ bids[3].status = "pending"
          /\ \E i \in 1..2 : bids[i].user = bids[3].user /\ bids[i].status = "rejected"
          /\ \E i \in 1..2 : bids[i].user # bids[3].user /\ bids[i].status = "accepted"

\* C22: placeBid on a listing whose status is not active is rejected once the
\* listing is read and appends no bid, whatever the bidder, amount, address
\* and payment method.
C22_InactiveListingTakesNoBid ==
    [][\A r \in SeqReqs, u \in Users, amt \in BidAmounts, addr \in BOOLEAN,
          pm \in PayMethods :
            (/\ "p1" \in DOMAIN products
             /\ products["p1"].status # "active"
             /\ PlaceRead(r, "p1", u, amt, addr, pm)) =>
                /\ reqs'[r] = IdleReq
                /\ lastResp' = Resp("placeBid", 400, "Cannot bid on inactive product")
                /\ UNCHANGED products]_vars

\* A bid on an expired listing was refused; the listing still has the bid it
\* took while active.
C22_Witness ==
    /\ lastResp = Resp("placeBid", 400, "Cannot bid on inactive product")
    /\ "p1" \in DOMAIN products
    /\ products["p1"].status = "expired"
    /\ Len(products["p1"].bids) = 1

\* C23: no listing contains a bid whose bidder is the listing's owner.
C23_NoBidOfOwner ==
    \A p \in DOMAIN products :
        \A i \in 1..Len(products[p].bids) : products[p].bids[i].user # products[p].user

\* C24: on an active listing a non-owner's placeBid succeeds only with an
\* amount strictly above the posted price (sell) or strictly below it (buy);
\* an amount equal to the posted price is rejected by the price rule of the
\* direction and appends no bid.
C24_StrictPriceRule ==
    [][\A r \in SeqReqs :
          /\ (PlaceBidder(r) /\ ~PriceRuleMet(products["p1"], reqs[r].amt)) =>
                /\ reqs'[r] = IdleReq
                /\ lastResp' = Resp("placeBid", 400,
                      IF products["p1"].postType = "sell"
                        THEN "Bid must be higher than current price"
                        ELSE "Bid must be lower than asking price")
                /\ UNCHANGED products
          /\ (PlaceSave(r) /\ products' # products) =>
                PriceRuleMet(products["p1"], reqs[r].bid.bidAmount)]_vars

\* A bid on a buy listing was refused by the price rule while the listing
\* holds a bid that met it.
C24_Witness ==
    /\ lastResp = Resp("placeBid", 400, "Bid must be lower than asking price")
    /\ "p1" \in DOMAIN products
    /\ products["p1"].postType = "buy"
    /\ products["p1"].status = "active"
    /\ \E i \in 1..Len(products["p1"].bids) :
          products["p1"].bids[i].bidAmount < products["p1"].pricePerKg

\* The reason of the first violated rule in the order the claim lists:
\* listing not active, self-bid, price rule, duplicate pending bid, delivery
\* address.
FirstViolatedRule(doc, u, amt, addr) ==
    IF doc.status # "active" THEN "Cannot bid on inactive product"
    ELSE IF doc.user = u THEN "Cannot bid on your own post"
    ELSE IF doc.postType = "sell" /\ amt <= doc.pricePerKg
        THEN "Bid must be higher than current price"
    ELSE IF doc.postType = "buy" /\ amt >= doc.pricePerKg
        THEN "Bid must be lower than asking price"
    ELSE IF StillPending(doc, u) THEN "You already have a pending bid"
    ELSE IF doc.postType = "sell" /\ ~addr THEN "Delivery address is required"
    ELSE "ok"

\* C25: a placeBid that violates several rules is answered with the reason of
\* the first violated rule in the order listing not active, self-bid, price
\* rule, duplicate pending bid, delivery address.
C25_FirstViolatedRuleReported ==
    [][\A r \in SeqReqs :
          /\ \A u \in Users, amt \in BidAmounts, addr \in BOOLEAN, pm \in PayMethods :
                (/\ "p1" \in DOMAIN products
                 /\ PlaceRead(r, "p1", u, amt, addr, pm)
                 /\ reqs'[r] = IdleReq) =>
                    lastResp'.msg = FirstViolatedRule(products["p1"], u, amt, addr)
          /\ (PlaceBidder(r) /\ reqs'[r] = IdleReq) =>
                lastResp'.msg = FirstViolatedRule(products["p1"], reqs[r].u, reqs[r].amt,
                                                  reqs[r].addr)]_vars

\* C26: a placeBid on a buy listing whose owner's profile address is
\* incomplete is rejected with the reason owner address incomplete and
\* appends no bid.
C26_OwnerAddressIncompleteReported ==
    [][\A r \in SeqReqs :
          (/\ reqs[r].pc = "place_save"
           /\ reqs[r].p \in DOMAIN products
           /\ products[reqs[r].p].postType = "buy"
           /\ Populated(products[reqs[r].p].user)
           /\ ~ProfileAddressComplete(products[reqs[r].p].user)
           /\ PlaceSave(r)) =>
              /\ lastResp' = Resp("placeBid", 400, "Owner address incomplete")
              /\ UNCHANGED products]_vars

\* C27: a successful placeBid appends one pending bid (payment method Cash on
\* Delivery when the request names none) at the end of the bids and leaves
\* the existing bids, status, posted price, owner and bidWinner as they were;
\* a rejected placeBid leaves the listing unchanged.
C27_PlaceBidAppendsOnePendingBid ==
    [][\A r \in SeqReqs :
          /\ \A u \in Users, amt \in BidAmounts, addr \in BOOLEAN, pm \in PayMethods :
                PlaceRead(r, "p1", u, amt, addr, pm) => UNCHANGED products
          /\ PlaceBidder(r) =>
                /\ UNCHANGED products
                /\ reqs'[r].pc = "place_save" =>
                      reqs'[r].bid =
                          [user |-> reqs[r].u, bidAmount |-> reqs[r].amt,
                           status |-> "pending",
                           paymentMethod |-> IF reqs[r].pm = "none"
                                               THEN "Cash on Delivery" ELSE reqs[r].pm]
          /\ PlaceSave(r) =>
                IF reqs'[r].pc = "place_respond"
                  THEN /\ products'["p1"].bids = Append(products["p1"].bids, reqs[r].bid)
                       /\ products'["p1"].status = products["p1"].status
                       /\ products'["p1"].pricePerKg = products["p1"].pricePerKg
                       /\ products'["p1"].bidWinner = products["p1"].bidWinner
                       /\ products'["p1"].user = products["p1"].user
                  ELSE lastResp'.status # 200 /\ UNCHANGED products
          /\ PlaceRespond(r) =>
                /\ lastResp' = Resp("placeBid", 200, "ok")
                /\ UNCHANGED products]_vars

\* A bid without a payment method was appended behind an earlier, accepted
\* bid of a listing that is active again.
C27_Witness ==
    /\ lastResp = Resp("placeBid", 200, "ok")
    /\ "p1" \in DOMAIN products
    /\ Len(products["p1"].bids) = 2
    /\ products["p1"].bids[1].status = "accepted"
    /\ products["p1"].bids[2].status = "pending"
    /\ products["p1"].bids[2].paymentMethod = "Cash on Delivery"
    /\ products["p1"].bidWinner.user = products["p1"].bids[1].user

\* C28: a request that sets an order's deliveryStatus to Delivered, through
\* updateDeliveryStatus or updateOrderStatus, leaves the order Delivered,
\* Completed and stamped with deliveredAt in the one update that writes it;
\* an update that a validator refuses for its paymentStatus stores nothing.
C28_DeliveredCompletesInOneUpdate ==
    [][\A r \in SeqReqs :
          ((DeliveryWrite(r) \/ OrderStatusWrite(r)) /\ reqs[r].ds = "Delivered") =>
              \/ /\ lastResp'.status = 200
                 /\ orders'[reqs[r].o].deliveryStatus = "Delivered"
                 /\ orders'[reqs[r].o].orderStatus = "Completed"
                 /\ orders'[reqs[r].o].deliveredAt = reqs[r].day
              \/ /\ reqs[r].pc = "orderstatus_write"
                 /\ reqs[r].ps \notin PaymentStatuses \cup {"none"}
                 /\ lastResp'.status = 500
                 /\ UNCHANGED orders]_vars

\* updateDeliveryStatus has set the order, still Processing before, to
\* Delivered.
C28_Witness ==
    /\ lastResp = Resp("updateDeliveryStatus", 200, "ok")
    /\ Len(orders) = 1
    /\ orders[1].deliveryStatus = "Delivered"
    /\ orders[1].orderStatus = "Completed"
    /\ orders[1].deliveredAt # 0
    /\ orders[1].cancelledAt = 0

\* C29: whenever a cancelOrder is written to a stored order, that order is
\* neither Completed nor Cancelled and not Delivered and the actor is its
\* seller or buyer, and the write sets orderStatus Cancelled, deliveryStatus
\* Cancelled, paymentStatus Refunded and cancelledAt together; a cancelOrder
\* that is refused leaves the order unchanged.
C29_CancelOnlyOpenUndeliveredOrder ==
    [][\A r \in Reqs :
          /\ (CancelWrite(r) /\ HasOrder(reqs[r].o)) =>
                LET o == reqs[r].o
                IN /\ reqs[r].u \in {orders[o].seller, orders[o].buyer}
                   /\ orders[o].orderStatus \notin {"Completed", "Cancelled"}
                   /\ orders[o].deliveryStatus # "Delivered"
                   /\ orders'[o].orderStatus = "Cancelled"
                   /\ orders'[o].deliveryStatus = "Cancelled"
                   /\ orders'[o].paymentStatus = "Refunded"
                   /\ orders'[o].cancelledAt = reqs[r].day
          /\ \A u \in Users : CancelRead(r, 1, u) => UNCHANGED orders]_vars

\* C30: once a review is attached to an order (review text and reviewedAt
\* set, with or without a rating), no step that leaves the order stored
\* changes its rating, review or reviewedAt.
C30_ReviewWriteOnce ==
    [][\A o \in 1..Len(orders) :
          (orders[o].reviewedAt # 0 /\ orders'[o] # NoOrder) =>
              /\ orders'[o].rating = orders[o].rating
              /\ orders'[o].review = orders[o].review
              /\ orders'[o].reviewedAt = orders[o].reviewedAt]_vars

\* C31: a delivery-status update sent to the routed endpoint is carried out
\* when the requester is the seller of the order or an admin, and is rejected
\* with the order unchanged for every other requester.
C31_SellerOrAdminMovesDelivery ==
    [][\A r \in SeqReqs :
          /\ \A u \in Callers, ds \in RouteDeliveryStatuses :
                (Len(orders) >= 1 /\ RouteDeliveryStatus(r, 1, u, ds)) =>
                    IF IsAdmin(u) \/ orders[1].seller = u
                      THEN reqs'[r].pc = "delivery_write"
                      ELSE /\ reqs'[r] = IdleReq
                           /\ lastResp'.status = 403
                           /\ UNCHANGED orders
          /\ DeliveryWrite(r) =>
                /\ lastResp'.status = 200
                /\ orders'[1].deliveryStatus = reqs[r].ds]_vars

\* C32: a payment-status update from a requester who is neither the seller
\* nor an admin, an order-status update from a requester who is not an admin,
\* a cancellation from a requester who is neither seller nor buyer and a
\* review from a requester who is not the buyer are rejected and leave the
\* order unchanged; the paymentStatus of an order changes only in a payment
\* update of its seller or an admin, an order-status update of an admin or a
\* cancellation of its seller or buyer.
C32_OnlyEntitledActorsChangeOrder ==
    [][Len(orders) >= 1 =>
        LET seller == orders[1].seller
            buyer == orders[1].buyer
            Rejected(r) == /\ reqs'[r] = IdleReq
                           /\ lastResp'.status = 403
                           /\ UNCHANGED orders
        IN /\ \A r \in SeqReqs :
                /\ \A u \in Callers \ {seller, "admin"}, ps \in OpsPaymentStatuses :
                      PaymentRead(r, 1, u, ps) => Rejected(r)
                /\ \A u \in Callers \ {"admin"}, os \in OpsOrderStatuses,
                      ds \in OpsDeliveryStatuses, ps \in OpsPaymentStatuses :
                      OrderStatusRead(r, 1, u, os, ds, ps) => Rejected(r)
                /\ \A u \in Callers \ {seller, buyer} : CancelRead(r, 1, u) => Rejected(r)
                /\ \A u \in Callers \ {buyer}, rating \in Ratings :
                      ReviewRead(r, 1, u, rating, "good") => Rejected(r)
           /\ orders'[1].paymentStatus # orders[1].paymentStatus =>
                \E r \in SeqReqs :
                    PaymentWrite(r) \/ OrderStatusWrite(r) \/ CancelWrite(r)]_vars

\* C32 witness: a payment-status update has been rejected on an order whose
\* payment status an entitled requester had set to Paid.
C32_Witness ==
    /\ Len(orders) >= 1
    /\ orders[1].paymentStatus = "Paid"
    /\ lastResp = Resp("updatePaymentStatus", 403, "Not authorized to update payment status")

\* The parties and the money of an order.
FinancialFields(ord) ==
    <<ord.seller, ord.buyer, ord.quantity, ord.pricePerKg, ord.totalPrice,
      ord.companyRevenue, ord.sellerEarning, ord.buyerPayment, ord.commissionRate>>

\* C33: no step changes the seller, buyer, quantity, pricePerKg, totalPrice,
\* companyRevenue, sellerEarning, buyerPayment or commissionRate of an order
\* that exists.
C33_FinancialFieldsFrozen ==
    [][\A o \in 1..Len(orders) :
          /\ o <= Len(orders')
          /\ FinancialFields(orders'[o]) = FinancialFields(orders[o])]_vars

\* C33 witness: the first order has been cancelled and still carries its
\* payment, and a second order has been created from the reopened listing.
C33_Witness ==
    /\ Len(orders) = 2
    /\ orders[1].orderStatus = "Cancelled"
    /\ orders[1].paymentStatus = "Refunded"
    /\ orders[1].buyerPayment = orders[1].totalPrice
    /\ orders[1].totalPrice > 0
    /\ orders[2].buyer # orders[1].buyer \/ orders[2].seller # orders[1].seller

\* C34: a listing whose status is sold or purchased has no pending bid, also
\* when a placeBid that read the listing while it was active saves after an
\* acceptBid on the listing has saved.
C34_SettledListingHasNoPendingBid ==
    \A p \in DOMAIN products :
        IsSettled(p) =>
            \A i \in 1..Len(products[p].bids) : products[p].bids[i].status # "pending"

\* C35: an order whose orderStatus is Cancelled has deliveryStatus Cancelled
\* and paymentStatus Refunded, whichever operation cancelled it.
C35_CancelledIsCancelledAndRefunded ==
    \A o \in 1..Len(orders) :
        orders[o].orderStatus = "Cancelled" =>
            /\ orders[o].deliveryStatus = "Cancelled"
            /\ orders[o].paymentStatus = "Refunded"

\* C36: an order whose deliveryStatus is Delivered has orderStatus Completed
\* and deliveredAt set.
C36_DeliveredIsCompleted ==
    \A o \in 1..Len(orders) :
        orders[o].deliveryStatus = "Delivered" =>
            /\ orders[o].orderStatus = "Completed"
            /\ orders[o].deliveredAt # 0

\* An order as cancelOrder leaves it, and an order as a delivery leaves it.
CancelledByCounterparty(ord) ==
    /\ ord.orderStatus = "Cancelled"
    /\ ord.deliveryStatus = "Cancelled"
    /\ ord.paymentStatus = "Refunded"
    /\ ord.cancelledAt # 0
CompletedByDelivery(ord) ==
    /\ ord.orderStatus = "Completed"
    /\ ord.deliveryStatus = "Delivered"
    /\ ord.deliveredAt # 0

\* C37: no step takes an order cancelled by a counterparty to Completed, and
\* no step takes an order completed by delivery to Cancelled.
C37_CompletedAndCancelledAreTerminal ==
    [][\A o \in 1..Len(orders) :
          /\ CancelledByCounterparty(orders[o]) => orders'[o].orderStatus # "Completed"
          /\ CompletedByDelivery(orders[o]) => orders'[o].orderStatus # "Cancelled"]_vars

\* C38: the bidWinner of a listing, when set, names the bidder and the amount
\* of the one accepted bid of the listing, and every order created for the
\* listing has pricePerKg equal to bidWinner.bidAmount.
C38_BidWinnerIsTheAcceptedBid ==
    \A p \in DOMAIN products :
        products[p].bidWinner # NoWinner =>
            /\ Cardinality(AcceptedBids(p)) = 1
            /\ \A i \in AcceptedBids(p) :
                  /\ products[p].bids[i].user = products[p].bidWinner.user
                  /\ products[p].bids[i].bidAmount = products[p].bidWinner.bidAmount
            /\ \A o \in OrdersOf(p) :
                  orders[o].pricePerKg = products[p].bidWinner.bidAmount

\* C39: every order has a seller different from its buyer.
C39_SellerIsNotBuyer ==
    \A o \in 1..Len(orders) : orders[o].seller # orders[o].buyer

\* C39 witness: two orders of a buy listing, the owner buying from two
\* different bidders.
C39_Witness ==
    /\ Len(orders) = 2
    /\ orders[1].postType = "buy"
    /\ orders[1].buyer = products["p1"].user
    /\ orders[2].buyer = products["p1"].user
    /\ orders[1].seller # orders[2].seller

\* C40: every order references a listing that exists and whose status is sold
\* or purchased.
C40_OrderListingStaysSettled ==
    \A o \in 1..Len(orders) :
        /\ orders[o].product \in DOMAIN products
        /\ products[orders[o].product].status \in Settled

====
